---- MODULE Spec2Model ----
(***************************************************************************)
(* Model of the domain decomposition core of fridom:                      *)
(*   Subdomain, DomainDecomposition (construction, sync), Transformer      *)
(*   and ParallelFFT.                                                      *)
(*                                                                         *)
(* Index tuples, shapes, coordinates are sequences of length n_dims whose  *)
(* entries are 0-based as in the source.  A local array is a function from *)
(* the index tuples of its shape to cell values.  Cell values are symbolic *)
(* records that carry the global index the value was written for.          *)
(***************************************************************************)
EXTENDS Integers, Sequences, FiniteSets, TLC

VARIABLES
    pin,      \* inputs of the Subdomain computations (SpecSub)
    pout,     \* Subdomains computed so far (SpecSub)
    size,     \* MPI.COMM_WORLD.Get_size()
    doms,     \* the DomainDecompositions that exist, by name
    raised,   \* raised[r]: "none" (not constructed yet), "ok", "ValueError"
    script,   \* the operations every rank executes, in order (SPMD)
    ip,       \* ip[r]: index of the operation rank r is executing
    pc,       \* pc[r]: position of rank r inside the operation
    axis,     \* axis[r]: axis of the running sync_list loop (0-based)
    arrs,     \* arrs[r]: the list of arrays rank r works on
    rbufs,    \* rbufs[r]: receive buffers posted by rank r (Irecv)
    chan,     \* chan[dst][src]: messages sent by src to dst, not yet received
    snap,     \* snap[r][k]: arrs[r] when rank r finished operation k
    log,      \* log[r]: the applications of apply_fun on rank r, in order
    stage     \* index of the running stage of the ParallelFFT chain

vars == <<pin, pout, size, doms, raised, script, ip, pc, axis, arrs,
          rbufs, chan, snap, log, stage>>

\* ---------------------------------------------------------------------
\*  Bounds of the model
\* ---------------------------------------------------------------------
MaxN == 5        \* largest n_global[i] of the Subdomain computations
MaxP == 6        \* largest n_procs[i] of the Subdomain computations
MaxHalo == 2     \* largest halo

\* ---------------------------------------------------------------------
\*  Helpers on sequences
\* ---------------------------------------------------------------------
Min(a, b) == IF a <= b THEN a ELSE b
Max(a, b) == IF a >= b THEN a ELSE b

RECURSIVE Prod(_, _, _)
\* product of s[from..to]
Prod(s, from, to) == IF from > to THEN 1 ELSE s[from] * Prod(s, from + 1, to)

RECURSIVE SetToSortedSeq(_)
\* list(set) of small non-negative ints iterates in increasing order
SetToSortedSeq(S) ==
    IF S = {} THEN <<>>
    ELSE LET m == CHOOSE x \in S : \A y \in S : x <= y
         IN  <<m>> \o SetToSortedSeq(S \ {m})

SeqToSet(s) == {s[i] : i \in 1..Len(s)}

\* ---------------------------------------------------------------------
\*  Python slices.  None is <<>>, an integer v is <<v>>.
\* ---------------------------------------------------------------------
None == <<>>
Some(v) == <<v>>
slice(start, stop) == [start |-> start, stop |-> stop]
FullSlice == slice(None, None)

\* slice.indices(len) for step 1: the half-open range [lo, hi) it selects
SliceLo(s, len) ==
    IF s.start = None THEN 0
    ELSE IF s.start[1] < 0 THEN Max(s.start[1] + len, 0)
    ELSE Min(s.start[1], len)
SliceHi(s, len) ==
    IF s.stop = None THEN len
    ELSE IF s.stop[1] < 0 THEN Max(s.stop[1] + len, 0)
    ELSE Min(s.stop[1], len)
SliceLen(s, len) == Max(SliceHi(s, len) - SliceLo(s, len), 0)

\* ---------------------------------------------------------------------
\*  MPI cartesian topology (row-major ranks, periodic)
\* ---------------------------------------------------------------------
Get_coords(rank, n_procs) ==
    [i \in 1..Len(n_procs) |->
        (rank \div Prod(n_procs, i + 1, Len(n_procs))) % n_procs[i]]

Get_cart_rank(coord, n_procs) ==
    LET RECURSIVE Acc(_)
        Acc(i) == IF i > Len(n_procs) THEN 0
                  ELSE coord[i] * Prod(n_procs, i + 1, Len(n_procs)) + Acc(i + 1)
    IN  Acc(1)

\* ---------------------------------------------------------------------
\*  Subdomain
\* ---------------------------------------------------------------------
RemainderFirstRank(c, n_grid, n_proc) == IF c = 0 THEN n_grid % n_proc ELSE 0

\* remainder: the last processor along an axis takes n_grid % n_proc
Remainder(c, n_grid, n_proc) == IF c = n_proc - 1 THEN n_grid % n_proc ELSE 0

NBaseCeil(n_grid, n_proc) == (n_grid + n_proc - 1) \div n_proc

\* n_base: the number of grid points every processor along an axis gets
NBase(n_grid, n_proc) == n_grid \div n_proc

Subdomain(rank, n_procs, n_global, halo) ==
    LET n_dims == Len(n_global)
        coord == Get_coords(rank, n_procs)
        n_base == [i \in 1..n_dims |-> NBase(n_global[i], n_procs[i])]
        remainder == [i \in 1..n_dims |->
                        Remainder(coord[i], n_global[i], n_procs[i])]
        inner_shape == [i \in 1..n_dims |-> n_base[i] + remainder[i]]
        position == [i \in 1..n_dims |-> coord[i] * n_base[i]]
    IN  [ n_global      |-> n_global,
          halo          |-> halo,
          rank          |-> rank,
          coord         |-> coord,
          is_left_edge  |-> [i \in 1..n_dims |-> coord[i] = 0],
          is_right_edge |-> [i \in 1..n_dims |-> coord[i] = n_procs[i] - 1],
          shape         |-> [i \in 1..n_dims |-> inner_shape[i] + 2 * halo],
          inner_shape   |-> inner_shape,
          position      |-> position,
          global_slice  |-> [i \in 1..n_dims |->
                               slice(Some(position[i]),
                                     Some(position[i] + inner_shape[i]))],
          inner_slice   |-> [i \in 1..n_dims |->
                               IF halo > 0 THEN slice(Some(halo), Some(-halo))
                               ELSE FullSlice] ]

\* the global indices a Subdomain owns along axis i
Owned(sub, i) ==
    {j \in 0..(sub.n_global[i] - 1) :
        sub.global_slice[i].start[1] <= j /\ j < sub.global_slice[i].stop[1]}

\* ---------------------------------------------------------------------
\*  MPI.Compute_dims: balanced factorisation of nnodes over the entries of
\*  dims that are 0, in non-increasing order; non-zero entries are kept.
\* ---------------------------------------------------------------------
Factorizations(q, m) ==
    {f \in [1..m -> 1..q] :
        /\ Prod(f, 1, m) = q
        /\ \A i \in 1..(m - 1) : f[i] >= f[i + 1]}

LexLeq(f, g) ==
    \/ f = g
    \/ \E i \in 1..Len(f) : f[i] < g[i] /\ \A j \in 1..(i - 1) : f[j] = g[j]

Balanced(q, m) ==
    CHOOSE f \in Factorizations(q, m) : \A g \in Factorizations(q, m) : LexLeq(f, g)

\* Compute_dims fails when the fixed entries leave nothing to distribute over
Compute_dims_ok(nnodes, dims) ==
    LET fixed == Prod([i \in 1..Len(dims) |-> IF dims[i] = 0 THEN 1 ELSE dims[i]],
                      1, Len(dims))
    IN  /\ nnodes % fixed = 0
        /\ (\A i \in 1..Len(dims) : dims[i] # 0) => nnodes = fixed

Compute_dims(nnodes, dims) ==
    LET m == Cardinality({i \in 1..Len(dims) : dims[i] = 0})
        fixed == Prod([i \in 1..Len(dims) |-> IF dims[i] = 0 THEN 1 ELSE dims[i]],
                      1, Len(dims))
        bal == Balanced(nnodes \div fixed, m)
    IN  [i \in 1..Len(dims) |->
            IF dims[i] # 0 THEN dims[i]
            ELSE bal[Cardinality({j \in 1..i : dims[j] = 0})]]

\* ---------------------------------------------------------------------
\*  DomainDecomposition.__init__
\*  Axes are numbered from 0 as in the source; axis a is entry a+1 of a
\*  sequence.  The record holds what is the same on every rank; the rank
\*  and my_subdomain of a process are all_subdomains[rank + 1].
\* ---------------------------------------------------------------------
RequestedProcsNoShared(n_global, shared_axes) ==
    [i \in 1..Len(n_global) |-> IF n_global[i] = 1 THEN 1 ELSE 0]

RequestedProcsSharedOnly(n_global, shared_axes) ==
    [i \in 1..Len(n_global) |-> IF (i - 1) \in SeqToSet(shared_axes) THEN 1 ELSE 0]

\* n_procs before Compute_dims: 1 for shared axes and axes of one point
RequestedProcs(n_global, shared_axes) ==
    [i \in 1..Len(n_global) |->
        IF (i - 1) \in SeqToSet(shared_axes) THEN 1
        ELSE IF n_global[i] = 1 THEN 1
        ELSE 0]

DomainDecomposition(n_global, halo, shared_axes, nnodes) ==
    LET n_dims == Len(n_global)
        n_procs == Compute_dims(nnodes, RequestedProcs(n_global, shared_axes))
    IN  [ n_dims         |-> n_dims,
          n_global       |-> n_global,
          halo           |-> halo,
          n_procs        |-> n_procs,
          shared_axes    |-> SetToSortedSeq({i - 1 : i \in {j \in 1..n_dims : n_procs[j] = 1}}),
          size           |-> nnodes,
          all_subdomains |-> [r \in 1..nnodes |-> Subdomain(r - 1, n_procs, n_global, halo)],
          inner          |-> slice(Some(halo), Some(-halo)),
          send_to_next   |-> slice(Some(-2 * halo), Some(-halo)),
          send_to_prev   |-> slice(Some(halo), Some(2 * halo)),
          recv_from_next |-> slice(Some(-halo), None),
          recv_from_prev |-> slice(None, Some(halo)) ]

Constructible(n_global, shared_axes, nnodes) ==
    Compute_dims_ok(nnodes, RequestedProcs(n_global, shared_axes))

my_subdomain(D, r) == D.all_subdomains[r + 1]

HaloTooLargeAnyAxis(D, r) ==
    \E i \in 1..D.n_dims : my_subdomain(D, r).inner_shape[i] < D.halo

\* the check of the constructor: on an axis with more than one process the
\* local domain must hold at least halo points
HaloTooLarge(D, r) ==
    \E i \in 1..D.n_dims :
        /\ D.n_procs[i] # 1
        /\ my_subdomain(D, r).inner_shape[i] < D.halo

\* neighbours on a topology that is not periodic: no neighbour past an edge
NeighbourNoWrap(D, r, a, d) ==
    LET c == my_subdomain(D, r).coord
    IN  IF c[a + 1] + d < 0 \/ c[a + 1] + d >= D.n_procs[a + 1] THEN r
        ELSE Get_cart_rank([c EXCEPT ![a + 1] = c[a + 1] + d], D.n_procs)

\* neighbours along an axis: subcomm.Shift(0, 1) on the periodic topology
Neighbour(D, r, a, d) ==
    LET c == my_subdomain(D, r).coord
    IN  Get_cart_rank([c EXCEPT ![a + 1] = (c[a + 1] + d + D.n_procs[a + 1]) % D.n_procs[a + 1]],
                      D.n_procs)
next_proc(D, r, a) == Neighbour(D, r, a, 1)
prev_proc(D, r, a) == Neighbour(D, r, a, -1)

\* _make_slice_list(s, n_dims)[a]: s on axis a, the full range elsewhere
SliceOnAxis(s, a, n_dims) == [i \in 1..n_dims |-> IF i = a + 1 THEN s ELSE FullSlice]

Ranks == 0..(size - 1)

\* ---------------------------------------------------------------------
\*  Arrays: [shape, d] with d a function on the index tuples of the shape
\* ---------------------------------------------------------------------
RECURSIVE SeqMax(_)
SeqMax(s) == IF s = <<>> THEN 0 ELSE Max(Head(s), SeqMax(Tail(s)))

Box(shape) ==
    {t \in [1..Len(shape) -> 0..(SeqMax(shape) - 1)] :
        \A i \in 1..Len(shape) : t[i] < shape[i]}

\* cell values: data written for global index g of array number a of a
\* batch, ft[i] = number of transforms applied along axis i-1 (inverse
\* transforms count -1); Stale is memory never written (empty, old halo)
Data(a, g) == [k |-> "data", a |-> a, g |-> g, ft |-> [i \in 1..Len(g) |-> 0], ok |-> TRUE]
Stale == [k |-> "stale"]
Zero == [k |-> "zero"]
Mismatch == [k |-> "shape mismatch"]

Filled(shape, v) == [shape |-> shape, d |-> [t \in Box(shape) |-> v]]

SlLo(A, sl) == [i \in 1..Len(A.shape) |-> SliceLo(sl[i], A.shape[i])]
SlShape(A, sl) == [i \in 1..Len(A.shape) |-> SliceLen(sl[i], A.shape[i])]

\* A[sl]
View(A, sl) ==
    LET lo == SlLo(A, sl)
    IN  [shape |-> SlShape(A, sl),
         d |-> [t \in Box(SlShape(A, sl)) |->
                    A.d[[i \in 1..Len(A.shape) |-> t[i] + lo[i]]]]]

\* A[sl] = B  (shapes must agree)
SetSlice(A, sl, B) ==
    LET lo == SlLo(A, sl)
        hi == [i \in 1..Len(A.shape) |-> lo[i] + SlShape(A, sl)[i]]
    IN  IF B.shape # SlShape(A, sl) THEN Filled(A.shape, Mismatch)
        ELSE [A EXCEPT !.d =
                [t \in DOMAIN A.d |->
                    IF \A i \in 1..Len(A.shape) : lo[i] <= t[i] /\ t[i] < hi[i]
                    THEN B.d[[i \in 1..Len(A.shape) |-> t[i] - lo[i]]]
                    ELSE A.d[t]]]

\* ncp.pad(B, (halo, halo) on axis a, mode='wrap'): periodic continuation
PadWrap(B, a, halo) ==
    LET shape == [B.shape EXCEPT ![a + 1] = @ + 2 * halo]
    IN  [shape |-> shape,
         d |-> [t \in Box(shape) |->
                  B.d[[t EXCEPT ![a + 1] = (t[a + 1] - halo + halo * B.shape[a + 1])
                                            % B.shape[a + 1]]]]]

\* the local array of rank r in D holding array number a of a batch:
\* owned cells hold their global index, halo cells are stale
LocalArray(D, r, a) ==
    LET sub == my_subdomain(D, r)
    IN  [shape |-> sub.shape,
         d |-> [t \in Box(sub.shape) |->
                  IF \A i \in 1..D.n_dims :
                        D.halo <= t[i] /\ t[i] < D.halo + sub.inner_shape[i]
                  THEN Data(a, [i \in 1..D.n_dims |-> t[i] - D.halo + sub.position[i]])
                  ELSE Stale]]

\* ---------------------------------------------------------------------
\*  DomainDecomposition.sync_list / _sync_axis
\* ---------------------------------------------------------------------
SameProcSliceOnly(D, arr, a) ==
    LET s1 == SetSlice(arr, SliceOnAxis(D.recv_from_next, a, D.n_dims),
                       View(arr, SliceOnAxis(D.send_to_prev, a, D.n_dims)))
    IN  SetSlice(s1, SliceOnAxis(D.recv_from_prev, a, D.n_dims),
                 View(s1, SliceOnAxis(D.send_to_next, a, D.n_dims)))

\* _sync_axis_same_proc for one array
SameProc(D, arr, a) ==
    IF D.n_global[a + 1] < D.halo
    THEN SetSlice(arr, [i \in 1..D.n_dims |-> FullSlice],
                  PadWrap(View(arr, SliceOnAxis(D.inner, a, D.n_dims)), a, D.halo))
    ELSE LET s1 == SetSlice(arr, SliceOnAxis(D.recv_from_next, a, D.n_dims),
                            View(arr, SliceOnAxis(D.send_to_prev, a, D.n_dims)))
         IN  SetSlice(s1, SliceOnAxis(D.recv_from_prev, a, D.n_dims),
                      View(s1, SliceOnAxis(D.send_to_next, a, D.n_dims)))

_sync_axis_same_proc(D, as, a) == [i \in 1..Len(as) |-> SameProc(D, as[i], a)]

\* the loop of sync_list from axis a on, up to the first axis that needs
\* messages: the arrays then, and that axis (n_dims when the loop is over)
RECURSIVE SyncLoop(_, _, _, _)
SyncLoop(D, as, a, flat_axes) ==
    IF a >= D.n_dims THEN [arrs |-> as, axis |-> D.n_dims]
    ELSE IF a \in flat_axes THEN SyncLoop(D, as, a + 1, flat_axes)
    ELSE IF D.n_procs[a + 1] = 1
         THEN SyncLoop(D, _sync_axis_same_proc(D, as, a), a + 1, flat_axes)
    ELSE [arrs |-> as, axis |-> a]

\* communicators: <<name, a>> is subcomm a of the decomposition `name`,
\* <<name, -1>> its cartesian communicator
\* the Isends of a batch issued array by array no more: first the slabs of
\* all arrays for the next neighbour, then those for the previous one
SyncSendsNextFirst(name, D, r, as, a) ==
    [j \in 1..(2 * Len(as)) |->
        IF j <= Len(as)
        THEN [comm |-> <<name, a>>, dest |-> next_proc(D, r, a),
              buf |-> View(as[j], SliceOnAxis(D.send_to_next, a, D.n_dims))]
        ELSE [comm |-> <<name, a>>, dest |-> prev_proc(D, r, a),
              buf |-> View(as[j - Len(as)], SliceOnAxis(D.send_to_prev, a, D.n_dims))]]

\* the Isends of _sync_axis in the order they are issued
SyncSends(name, D, r, as, a) ==
    [j \in 1..(2 * Len(as)) |->
        LET arr == as[(j + 1) \div 2]
        IN  IF j % 2 = 1
            THEN [comm |-> <<name, a>>, dest |-> next_proc(D, r, a),
                  buf |-> View(arr, SliceOnAxis(D.send_to_next, a, D.n_dims))]
            ELSE [comm |-> <<name, a>>, dest |-> prev_proc(D, r, a),
                  buf |-> View(arr, SliceOnAxis(D.send_to_prev, a, D.n_dims))]]

SyncRecvsFromNextOnly(name, D, r, as, a) ==
    [j \in 1..(2 * Len(as)) |->
        LET arr == as[(j + 1) \div 2]
        IN  [comm |-> <<name, a>>, source |-> next_proc(D, r, a),
             shape |-> View(arr, SliceOnAxis(D.recv_from_next, a, D.n_dims)).shape]]

\* the Irecvs of _sync_axis in the order they are posted
SyncRecvs(name, D, r, as, a) ==
    [j \in 1..(2 * Len(as)) |->
        LET arr == as[(j + 1) \div 2]
        IN  IF j % 2 = 1
            THEN [comm |-> <<name, a>>, source |-> next_proc(D, r, a),
                  shape |-> View(arr, SliceOnAxis(D.recv_from_next, a, D.n_dims)).shape]
            ELSE [comm |-> <<name, a>>, source |-> prev_proc(D, r, a),
                  shape |-> View(arr, SliceOnAxis(D.recv_from_prev, a, D.n_dims)).shape]]

\* Isend: the message joins the queue from src to dest
RECURSIVE Isend(_, _, _)
Isend(ch, src, sends) ==
    IF sends = <<>> THEN ch
    ELSE Isend([ch EXCEPT ![Head(sends).dest][src] =
                    Append(@, [comm |-> Head(sends).comm, buf |-> Head(sends).buf])],
               src, Tail(sends))

\* position of the last message of communicator comm in a queue, 0 if none
LastOf(q, comm, i) ==
    IF \E j \in i..Len(q) : q[j].comm = comm
    THEN CHOOSE j \in i..Len(q) :
            /\ q[j].comm = comm
            /\ \A m \in (j + 1)..Len(q) : q[m].comm # comm
    ELSE 0

\* position of the first message of communicator comm in a queue, 0 if none
RECURSIVE FirstOf(_, _, _)
FirstOf(q, comm, i) ==
    IF i > Len(q) THEN 0
    ELSE IF q[i].comm = comm THEN i
    ELSE FirstOf(q, comm, i + 1)

Remove(q, i) == [j \in 1..(Len(q) - 1) |-> IF j < i THEN q[j] ELSE q[j + 1]]

RECURSIVE MatchWithoutWaiting(_, _)
MatchWithoutWaiting(inbox, posted) ==
    IF posted = <<>> THEN [ok |-> TRUE, bufs |-> <<>>, inbox |-> inbox]
    ELSE LET p == Head(posted)
             i == FirstOf(inbox[p.source], p.comm, 1)
             rest == MatchWithoutWaiting(
                        IF i = 0 THEN inbox ELSE [inbox EXCEPT ![p.source] = Remove(@, i)],
                        Tail(posted))
         IN  [ok |-> TRUE,
              bufs |-> <<IF i = 0 THEN Filled(p.shape, Zero)
                         ELSE inbox[p.source][i].buf>> \o rest.bufs,
              inbox |-> rest.inbox]

\* MPI matching: receives posted by one rank are matched in the order they
\* were posted, each with the earliest unmatched message of its source on
\* its communicator (non-overtaking).  inbox is chan[r].
RECURSIVE Match(_, _)
Match(inbox, posted) ==
    IF posted = <<>> THEN [ok |-> TRUE, bufs |-> <<>>, inbox |-> inbox]
    ELSE LET p == Head(posted)
             i == FirstOf(inbox[p.source], p.comm, 1)
         IN  IF i = 0 THEN [ok |-> FALSE, bufs |-> <<>>, inbox |-> inbox]
             ELSE LET rest == Match([inbox EXCEPT ![p.source] = Remove(@, i)],
                                    Tail(posted))
                      got == inbox[p.source][i].buf
                  IN  [ok |-> rest.ok,
                       bufs |-> <<IF got.shape = p.shape THEN got
                                  ELSE Filled(p.shape, Mismatch)>> \o rest.bufs,
                       inbox |-> rest.inbox]

\* a copy of the received data over the cells that were sent
SyncCopyOverSent(D, as, a, bufs) ==
    [i \in 1..Len(as) |->
        SetSlice(SetSlice(as[i], SliceOnAxis(D.send_to_next, a, D.n_dims), bufs[2 * i - 1]),
                 SliceOnAxis(D.send_to_prev, a, D.n_dims), bufs[2 * i])]

\* copy the received data to the halo regions
SyncCopy(D, as, a, bufs) ==
    [i \in 1..Len(as) |->
        SetSlice(SetSlice(as[i], SliceOnAxis(D.recv_from_next, a, D.n_dims), bufs[2 * i - 1]),
                 SliceOnAxis(D.recv_from_prev, a, D.n_dims), bufs[2 * i])]

\* ---------------------------------------------------------------------
\*  The processes.  Every rank runs the operations of `script` in order;
\*  an action is the code of one rank from one blocking call
\*  (MPI.Request.Waitall) to the next.
\* ---------------------------------------------------------------------
Op(r) == script[ip[r]]

\* the operation returns on rank r with the arrays `as`
Return(r, as, ch) ==
    /\ arrs' = [arrs EXCEPT ![r] = as]
    /\ chan' = ch
    /\ rbufs' = [rbufs EXCEPT ![r] = <<>>]
    /\ snap' = [snap EXCEPT ![r] = Append(@, as)]
    /\ ip' = [ip EXCEPT ![r] = @ + 1]
    /\ pc' = [pc EXCEPT ![r] = IF ip[r] = Len(script) THEN "done" ELSE "call"]
    /\ axis' = [axis EXCEPT ![r] = 0]

\* sync_list from axis a on: local axes are done at once; at the first axis
\* with more than one process the sends and receives are issued and the
\* rank waits
SyncFrom(r, name, as, a, flat_axes, ch) ==
    LET D == doms[name]
        res == SyncLoop(D, as, a, flat_axes)
    IN  IF res.axis = D.n_dims THEN Return(r, res.arrs, ch)
        ELSE /\ arrs' = [arrs EXCEPT ![r] = res.arrs]
             /\ chan' = Isend(ch, r, SyncSends(name, D, r, res.arrs, res.axis))
             /\ rbufs' = [rbufs EXCEPT ![r] = SyncRecvs(name, D, r, res.arrs, res.axis)]
             /\ axis' = [axis EXCEPT ![r] = res.axis]
             /\ pc' = [pc EXCEPT ![r] = "sync_wait"]
             /\ UNCHANGED <<ip, snap>>

\* DomainDecomposition.sync_list(as, flat_axes)
sync(r, name, as, flat_axes, ch) ==
    IF doms[name].halo = 0 THEN Return(r, as, ch)
    ELSE SyncFrom(r, name, as, 0, flat_axes, ch)

\* the decomposition whose sync is running on rank r, and its flat_axes
SyncDom(r) ==
    IF Op(r).op = "sync" THEN Op(r).dom
    ELSE IF Op(r).op = "forward" THEN Op(r).dout
    ELSE Op(r).din
SyncFlat(r) == IF Op(r).op = "sync" THEN Op(r).flat_axes ELSE {}

\* DomainDecomposition.__init__ on rank r: the halo check
DomainDecomposition_init(r) ==
    /\ pc[r] = "init"
    /\ raised' = [raised EXCEPT ![r] =
                    IF HaloTooLarge(doms["in"], r) THEN "ValueError" ELSE "ok"]
    /\ pc' = [pc EXCEPT ![r] =
                    IF HaloTooLarge(doms["in"], r) THEN "raised" ELSE "call"]
    /\ UNCHANGED <<pin, pout, size, doms, script, ip, axis, arrs, rbufs, chan, snap, log, stage>>

\* rank r calls sync_list
sync_list(r) ==
    /\ pc[r] = "call"
    /\ Op(r).op = "sync"
    /\ sync(r, Op(r).dom, arrs[r], Op(r).flat_axes, chan)
    /\ UNCHANGED <<pin, pout, size, doms, raised, script, log, stage>>

\* MPI.Request.Waitall(reqs) of _sync_axis returns on rank r; the received
\* buffers are copied and the loop over the axes goes on
sync_axis_Waitall(r) ==
    /\ pc[r] = "sync_wait"
    /\ LET m == Match(chan[r], rbufs[r])
           D == doms[SyncDom(r)]
       IN  /\ m.ok
           /\ SyncFrom(r, SyncDom(r), SyncCopy(D, arrs[r], axis[r], m.bufs),
                       axis[r] + 1, SyncFlat(r), [chan EXCEPT ![r] = m.inbox])
    /\ UNCHANGED <<pin, pout, size, doms, raised, script, log, stage>>

\* ---------------------------------------------------------------------
\*  SpecSync: every rank constructs the decomposition and calls sync
\* ---------------------------------------------------------------------
MaxProcs == 3    \* largest MPI.COMM_WORLD.Get_size()
MaxNG == 4       \* largest n_global[i] of a decomposition
BatchSizes == {1, 2}   \* numbers of arrays of one sync_list call
SyncDims == {1, 2, 3}
MaxCells3 == 4   \* largest number of grid points in three dimensions

Axes(d) == 0..(d - 1)
\* the halos of a grid of d dimensions
Halos(d) == IF d > 2 THEN {0, 1} ELSE 0..MaxHalo

Grids(D) ==
    {g \in UNION {[1..d -> 1..MaxNG] : d \in D} :
        Len(g) > 2 => Prod(g, 1, Len(g)) <= MaxCells3}

ProcState(D0, scr, n_arrs) ==
    /\ raised = [r \in Ranks |-> "none"]
    /\ script = scr
    /\ ip = [r \in Ranks |-> 1]
    /\ pc = [r \in Ranks |-> "init"]
    /\ axis = [r \in Ranks |-> 0]
    /\ arrs = [r \in Ranks |-> [i \in 1..n_arrs |-> LocalArray(D0, r, i)]]
    /\ rbufs = [r \in Ranks |-> <<>>]
    /\ chan = [d \in Ranks |-> [s \in Ranks |-> <<>>]]
    /\ snap = [r \in Ranks |-> <<>>]
    /\ log = [r \in Ranks |-> <<>>]
    /\ stage = 0

InitSync ==
    /\ pout = <<>>
    /\ size \in 1..MaxProcs
    /\ \E g \in Grids(SyncDims) :
       \E h \in Halos(Len(g)), sh \in SUBSET Axes(Len(g)) :
          /\ pin = [n_global |-> g, halo |-> h, shared_axes |-> SetToSortedSeq(sh)]
          /\ Constructible(g, SetToSortedSeq(sh), size)
          /\ doms = [n \in {"in"} |-> DomainDecomposition(g, h, SetToSortedSeq(sh), size)]
          /\ \E n_arrs \in BatchSizes :
                ProcState(doms["in"], <<[op |-> "sync", dom |-> "in", flat_axes |-> {}]>>,
                          n_arrs)

NextSync ==
    \/ \E r \in Ranks : DomainDecomposition_init(r)
    \/ \E r \in Ranks : sync_list(r)
    \/ \E r \in Ranks : sync_axis_Waitall(r)

SpecSync == InitSync /\ [][NextSync]_vars

\* the rank has returned from the constructor without an exception
Constructed(r) == pc[r] # "init" /\ raised[r] = "ok"

\* C19: after construction shared_axes is exactly the set of axes whose
\* process count is 1, and it contains every requested shared axis and every
\* axis with n_global = 1.
C19_SharedAxes ==
    \A r \in Ranks : Constructed(r) =>
        LET D == doms["in"]
            got == SeqToSet(D.shared_axes)
        IN  /\ got = {i - 1 : i \in {j \in 1..D.n_dims : D.n_procs[j] = 1}}
            /\ SeqToSet(pin.shared_axes) \subseteq got
            /\ {i - 1 : i \in {j \in 1..D.n_dims : pin.n_global[j] = 1}} \subseteq got
            /\ Prod(D.n_procs, 1, D.n_dims) = size

\* more shared axes than requested, with a requested one and an axis of one
\* point that was not requested
C19_Witness ==
    \E r \in Ranks :
        /\ Constructed(r)
        /\ size > 1
        /\ pin.shared_axes # <<>>
        /\ \E i \in 1..Len(pin.n_global) :
              pin.n_global[i] = 1 /\ (i - 1) \notin SeqToSet(pin.shared_axes)
        /\ SeqToSet(pin.shared_axes) # SeqToSet(doms["in"].shared_axes)

\* ---------------------------------------------------------------------
\*  Subdomain methods
\* ---------------------------------------------------------------------
has_overlap_closed(self, other) ==
    \A i \in 1..Len(self.global_slice) :
        ~ (\/ self.global_slice[i].start[1] > other.global_slice[i].stop[1]
           \/ other.global_slice[i].start[1] > self.global_slice[i].stop[1])

has_overlap(self, other) ==
    \A i \in 1..Min(Len(self.global_slice), Len(other.global_slice)) :
        ~ (\/ self.global_slice[i].start[1] >= other.global_slice[i].stop[1]
           \/ other.global_slice[i].start[1] >= self.global_slice[i].stop[1])

g2l_slice_no_halo(self, global_slice) ==
    [i \in 1..Len(global_slice) |->
        slice(Some(global_slice[i].start[1] - self.position[i]),
              Some(global_slice[i].stop[1] - self.position[i]))]

g2l_slice(self, global_slice) ==
    [i \in 1..Min(Len(global_slice), Len(self.position)) |->
        slice(Some(global_slice[i].start[1] - self.position[i] + self.halo),
              Some(global_slice[i].stop[1] - self.position[i] + self.halo))]

get_overlap_slice(self, other) ==
    g2l_slice(self,
        [i \in 1..Min(Len(self.global_slice), Len(other.global_slice)) |->
            slice(Some(Max(self.global_slice[i].start[1], other.global_slice[i].start[1])),
                  Some(Min(self.global_slice[i].stop[1], other.global_slice[i].stop[1])))])

\* ---------------------------------------------------------------------
\*  Transformer: get_overlap_info and transform
\* ---------------------------------------------------------------------
OverlapProcessorsWithSelf(domain_in, domain_out, r) ==
    SetToSortedSeq({i \in 0..(domain_in.size - 1) :
        has_overlap(my_subdomain(domain_in, r), domain_out.all_subdomains[i + 1])})

\* the ranks i of domain_out whose Subdomain overlaps my Subdomain of
\* domain_in, in increasing order, without my own rank
OverlapProcessors(domain_in, domain_out, r) ==
    SetToSortedSeq({i \in 0..(domain_in.size - 1) :
        /\ has_overlap(my_subdomain(domain_in, r), domain_out.all_subdomains[i + 1])
        /\ i # r})

get_overlap_info(domain_in, domain_out, r) ==
    LET procs == OverlapProcessors(domain_in, domain_out, r)
    IN  [ processors |-> procs,
          overlap_slices |-> [j \in 1..Len(procs) |->
              get_overlap_slice(my_subdomain(domain_in, r),
                                domain_out.all_subdomains[procs[j] + 1])],
          slice_same_proc |->
              IF has_overlap(my_subdomain(domain_in, r), domain_out.all_subdomains[r + 1])
              THEN Some(get_overlap_slice(my_subdomain(domain_in, r),
                                          domain_out.all_subdomains[r + 1]))
              ELSE None ]

\* Transformer.__init__: the same_domain flag
same_domain(domain_in, domain_out) ==
    /\ \A i \in 1..Min(Len(domain_in.n_procs), Len(domain_out.n_procs)) :
          domain_in.n_procs[i] = domain_out.n_procs[i]
    /\ domain_in.halo = domain_out.halo

\* the decomposition the data of a forward/backward operation comes from
\* and the one it goes to
TrFrom(op) == IF op.op = "forward" THEN op.din ELSE op.dout
TrTo(op) == IF op.op = "forward" THEN op.dout ELSE op.din

\* the Isends of transform, in the order they are issued
TransformSends(name, domain_in, domain_out, r, arr_in) ==
    LET info == get_overlap_info(domain_in, domain_out, r)
    IN  [j \in 1..Len(info.processors) |->
            [comm |-> <<name, -1>>, dest |-> info.processors[j],
             buf |-> View(arr_in, info.overlap_slices[j])]]

TransformRecvsOfSends(name, domain_in, domain_out, r) ==
    LET info == get_overlap_info(domain_in, domain_out, r)
        arr_out == Filled(my_subdomain(domain_out, r).shape, Zero)
    IN  [j \in 1..Len(info.processors) |->
            [comm |-> <<name, -1>>, source |-> info.processors[j],
             shape |-> View(arr_out, info.overlap_slices[j]).shape]]

\* the Irecvs of transform, in the order they are posted
TransformRecvs(name, domain_in, domain_out, r) ==
    LET info == get_overlap_info(domain_out, domain_in, r)
        arr_out == Filled(my_subdomain(domain_out, r).shape, Zero)
    IN  [j \in 1..Len(info.processors) |->
            [comm |-> <<name, -1>>, source |-> info.processors[j],
             shape |-> View(arr_out, info.overlap_slices[j]).shape]]

\* arr_out[recv_slice] = buf for the received buffers, in order
RECURSIVE Scatter(_, _, _, _)
Scatter(arr_out, recv_slices, bufs, j) ==
    IF j > Len(recv_slices) THEN arr_out
    ELSE Scatter(SetSlice(arr_out, recv_slices[j], bufs[j]), recv_slices, bufs, j + 1)

TransformCopyNoSameProc(domain_in, domain_out, r, arr_in, bufs) ==
    Scatter(Filled(my_subdomain(domain_out, r).shape, Zero),
            get_overlap_info(domain_out, domain_in, r).overlap_slices, bufs, 1)

\* transform after Waitall, before the final sync of arr_out
TransformCopy(domain_in, domain_out, r, arr_in, bufs) ==
    LET info_in == get_overlap_info(domain_in, domain_out, r)
        info_out == get_overlap_info(domain_out, domain_in, r)
        arr_out == Scatter(Filled(my_subdomain(domain_out, r).shape, Zero),
                           info_out.overlap_slices, bufs, 1)
    IN  IF info_in.slice_same_proc # None
        THEN SetSlice(arr_out, info_out.slice_same_proc[1],
                      View(arr_in, info_in.slice_same_proc[1]))
        ELSE arr_out

\* rank r calls Transformer.forward / Transformer.backward (arr_out = None)
transform(r) ==
    /\ pc[r] = "call"
    /\ Op(r).op \in {"forward", "backward"}
    /\ LET from == doms[TrFrom(Op(r))]
           to == doms[TrTo(Op(r))]
       IN  IF same_domain(doms[Op(r).din], doms[Op(r).dout])
           THEN Return(r, arrs[r], chan)
           ELSE /\ chan' = Isend(chan, r, TransformSends(TrFrom(Op(r)), from, to, r, arrs[r][1]))
                /\ rbufs' = [rbufs EXCEPT ![r] = TransformRecvs(TrFrom(Op(r)), from, to, r)]
                /\ pc' = [pc EXCEPT ![r] = "transform_wait"]
                /\ UNCHANGED <<arrs, ip, snap, axis>>
    /\ UNCHANGED <<pin, pout, size, doms, raised, script, log, stage>>

\* MPI.Request.Waitall(reqs) of transform returns on rank r: the received
\* data and the same-process overlap are copied, then domain_out.sync
transform_Waitall(r) ==
    /\ pc[r] = "transform_wait"
    /\ LET m == Match(chan[r], rbufs[r])
       IN  /\ m.ok
           /\ sync(r, TrTo(Op(r)),
                   <<TransformCopy(doms[TrFrom(Op(r))], doms[TrTo(Op(r))], r,
                                   arrs[r][1], m.bufs)>>,
                   {}, [chan EXCEPT ![r] = m.inbox])
    /\ UNCHANGED <<pin, pout, size, doms, raised, script, log, stage>>

AllDone == \A r \in Ranks : pc[r] = "done"

DIn == doms["in"]

\* index tuples of the local array of rank r whose entries on the axes other
\* than a lie in the owned range
OwnedOffAxis(D, r, a) ==
    {t \in Box(my_subdomain(D, r).shape) :
        \A i \in 1..D.n_dims :
            i # a + 1 => /\ D.halo <= t[i]
                         /\ t[i] < D.halo + my_subdomain(D, r).inner_shape[i]}

\* upper halo of r along a = first halo owned cells of its next neighbour
UpperHaloFromNext(D, A, r, a) ==
    LET n == my_subdomain(D, r).inner_shape[a + 1]
    IN  \A t \in OwnedOffAxis(D, r, a) :
            t[a + 1] >= n + D.halo =>
                A[r][1].d[t] = A[next_proc(D, r, a)][1].d[[t EXCEPT ![a + 1] = @ - n]]

\* lower halo of r along a = last halo owned cells of its previous neighbour
LowerHaloFromPrev(D, A, r, a) ==
    LET m == my_subdomain(D, prev_proc(D, r, a)).inner_shape[a + 1]
    IN  \A t \in OwnedOffAxis(D, r, a) :
            t[a + 1] < D.halo =>
                A[r][1].d[t] = A[prev_proc(D, r, a)][1].d[[t EXCEPT ![a + 1] = @ + m]]

\* C1: with halo > 0 and k >= 2 processes along an axis (k = 2 included),
\* after every rank has called sync the upper halo of each rank holds the
\* first halo owned cells of its next neighbour and the lower halo the last
\* halo owned cells of its previous neighbour (periodic).
C1_HaloFromNeighbours ==
    (AllDone /\ DIn.halo > 0) =>
        \A r \in Ranks : \A a \in Axes(DIn.n_dims) :
            DIn.n_procs[a + 1] >= 2 =>
                /\ UpperHaloFromNext(DIn, arrs, r, a)
                /\ LowerHaloFromPrev(DIn, arrs, r, a)

\* the same for axes with three or more processes only
C1_ThreeOrMore ==
    (AllDone /\ DIn.halo > 0) =>
        \A r \in Ranks : \A a \in Axes(DIn.n_dims) :
            DIn.n_procs[a + 1] >= 3 =>
                /\ UpperHaloFromNext(DIn, arrs, r, a)
                /\ LowerHaloFromPrev(DIn, arrs, r, a)

C1_ThreeOrMoreWitness ==
    /\ AllDone /\ DIn.halo > 0
    /\ \E a \in Axes(DIn.n_dims) : DIn.n_procs[a + 1] >= 3

\* C9: the constructor raises ValueError on a rank exactly when on some axis
\* with more than one process the inner_shape of the rank is smaller than
\* halo; a rank that raised never enters sync, a rank in sync did not raise.
C9_HaloCheck ==
    \A r \in Ranks :
        /\ pc[r] = "init" <=> raised[r] = "none"
        /\ pc[r] # "init" =>
              (raised[r] = "ValueError" <=>
                  \E i \in 1..DIn.n_dims :
                      /\ DIn.n_procs[i] > 1
                      /\ my_subdomain(DIn, r).inner_shape[i] < DIn.halo)
        /\ raised[r] = "ValueError" <=> pc[r] = "raised"
        /\ pc[r] \in {"call", "sync_wait", "done"} <=> raised[r] = "ok"

C9_Witness ==
    /\ \E r \in Ranks : raised[r] = "ValueError"
    /\ \E r \in Ranks : raised[r] = "ok"
    /\ \E i \in 1..DIn.n_dims : DIn.n_procs[i] = 1 /\ DIn.n_global[i] < DIn.halo

\* C10: on an axis with one process and halo > 0, after sync the cell at
\* local index j along the axis holds the owned value of index
\* (j - halo) mod n, for n >= halo and for n < halo, and no message of the
\* communicator of that axis is ever sent.
C10_LocalWrap ==
    \A a \in Axes(DIn.n_dims) :
        (DIn.n_procs[a + 1] = 1 /\ DIn.halo > 0) =>
            /\ \A d \in Ranks, q \in Ranks : \A i \in 1..Len(chan[d][q]) :
                  chan[d][q][i].comm # <<"in", a>>
            /\ \A r \in Ranks : pc[r] = "done" =>
                  \A t \in OwnedOffAxis(DIn, r, a) :
                     arrs[r][1].d[t] =
                        Data(1, [i \in 1..DIn.n_dims |->
                                   IF i = a + 1
                                   THEN (t[i] - DIn.halo + DIn.halo * DIn.n_global[i])
                                           % DIn.n_global[i]
                                   ELSE t[i] - DIn.halo + my_subdomain(DIn, r).position[i]])

C10_Witness ==
    /\ AllDone /\ size > 1
    /\ \E a \in Axes(DIn.n_dims) :
          DIn.n_procs[a + 1] = 1 /\ DIn.halo > 0 /\ DIn.n_global[a + 1] < DIn.halo
    /\ \E a \in Axes(DIn.n_dims) : DIn.n_procs[a + 1] > 1

C10_WitnessSlice ==
    /\ AllDone
    /\ \E a \in Axes(DIn.n_dims) :
          DIn.n_procs[a + 1] = 1 /\ DIn.halo > 0 /\ DIn.n_global[a + 1] > DIn.halo

\* the axes along which the index tuple t of the local array of rank r lies
\* in the halo range
HaloAxes(D, r, t) ==
    {a \in Axes(D.n_dims) :
        \/ t[a + 1] < D.halo
        \/ t[a + 1] >= D.halo + my_subdomain(D, r).inner_shape[a + 1]}

\* the global index of the cell t of the local array of rank r, wrapped
\* periodically
WrappedIndex(D, r, t) ==
    [i \in 1..D.n_dims |->
        (t[i] - D.halo + my_subdomain(D, r).position[i] + D.halo * D.n_global[i])
            % D.n_global[i]]

\* every corner halo cell holds the owned value of the wrapped global index
CornersWrapped(D, A, r) ==
    \A k \in 1..Len(A[r]) : \A t \in Box(my_subdomain(D, r).shape) :
        Cardinality(HaloAxes(D, r, t)) >= 2 =>
            A[r][k].d[t] = Data(k, WrappedIndex(D, r, t))

\* while rank r waits in the exchange of axis a, the data of the axes before
\* a is in its arrays: the cells that are owned along a and the later axes
\* are written, in the halo of the earlier axes too
EarlierAxesWritten(D, r) ==
    \A k \in 1..Len(arrs[r]) : \A t \in Box(my_subdomain(D, r).shape) :
        (\A b \in HaloAxes(D, r, t) : b < axis[r]) => arrs[r][k].d[t] # Stale

\* every message rank r has sent for axis a spans halo cells along a and the
\* full local extent, halo included, of the other axes, with the data of the
\* earlier axes in it
FullSlabs(D, r) ==
    \A d \in Ranks : \A j \in 1..Len(chan[d][r]) :
        LET msg == chan[d][r][j]
            a == msg.comm[2]
        IN  /\ msg.buf.shape = [i \in 1..D.n_dims |->
                                  IF i = a + 1 THEN D.halo
                                  ELSE my_subdomain(D, r).shape[i]]
            /\ \A t \in Box(msg.buf.shape) :
                  (\A b \in Axes(D.n_dims) :
                      b > a => /\ t[b + 1] >= D.halo
                               /\ t[b + 1] < D.halo + my_subdomain(D, r).inner_shape[b + 1])
                  => msg.buf.d[t] # Stale

\* the part of C22 on the order of the axes and on the slabs
C22_AxisOrder ==
    \A r \in Ranks :
        /\ pc[r] = "sync_wait" => EarlierAxesWritten(DIn, r)
        /\ FullSlabs(DIn, r)

C22_AxisOrderWitness ==
    \E r \in Ranks :
        /\ pc[r] = "sync_wait" /\ axis[r] > 0
        /\ \E d \in Ranks : chan[d][r] # <<>>

\* C22: with two or more axes, after sync has returned on all ranks every
\* corner halo cell (halo range along two or more axes) holds the owned
\* value of the periodically wrapped global index; the exchange of an axis
\* starts only after the data received for the axes before it is written
\* into the array, and every exchanged slab spans the full local extent
\* (halo included) of the other axes.
C22_Corners ==
    /\ (AllDone /\ DIn.halo > 0) => \A r \in Ranks : CornersWrapped(DIn, arrs, r)
    /\ C22_AxisOrder

\* C25: the halo check of the constructor has the same outcome on all ranks:
\* either every rank raises ValueError or no rank does, also for uneven
\* splits where the last rank along an axis owns more points.
C25_SameOutcome ==
    \A r \in Ranks, q \in Ranks :
        (pc[r] # "init" /\ pc[q] # "init") =>
            (raised[r] = "ValueError" <=> raised[q] = "ValueError")

\* the same when every axis is split evenly
C25_SameOutcomeEven ==
    (\A i \in 1..DIn.n_dims : DIn.n_global[i] % DIn.n_procs[i] = 0) =>
        \A r \in Ranks, q \in Ranks :
            (pc[r] # "init" /\ pc[q] # "init") =>
                (raised[r] = "ValueError" <=> raised[q] = "ValueError")

C25_SameOutcomeEvenWitness ==
    /\ \A i \in 1..DIn.n_dims : DIn.n_global[i] % DIn.n_procs[i] = 0
    /\ size > 1
    /\ \A r \in Ranks : raised[r] = "ValueError"

\* no rank raises in the constructor
NoRankRaises(D) == \A r \in 0..(D.size - 1) : ~ HaloTooLarge(D, r)

\* rank r can take its next step: the constructor and the call of sync_list
\* never block, Waitall returns once every posted receive has its message
Runnable(r) ==
    \/ pc[r] = "init"
    \/ pc[r] = "call" /\ Op(r).op = "sync"
    \/ pc[r] = "sync_wait" /\ Match(chan[r], rbufs[r]).ok

\* how far rank r has got: constructor, call, the axis waited on, return
Position(r) ==
    IF pc[r] = "init" THEN 0
    ELSE IF pc[r] = "call" THEN 1
    ELSE IF pc[r] = "sync_wait" THEN 2 + axis[r]
    ELSE 2 + DIn.n_dims

\* C27: if every rank of a decomposition calls sync with the same number of
\* arrays and the same skipped axes, the call of every rank eventually
\* returns, for every process grid, 2 processes along an axis included:
\* as long as a call has not returned some rank can take a step (no
\* deadlock under reliable delivery), and every step moves one rank forward
\* and none backward, so fair progress ends with every call returned.
C27_SyncReturns ==
    /\ [](NoRankRaises(DIn) => AllDone \/ \E r \in Ranks : Runnable(r))
    /\ [][/\ \A r \in Ranks : Position(r)' >= Position(r)
          /\ \E r \in Ranks : Position(r)' > Position(r)]_vars

C27_Witness ==
    /\ AllDone /\ DIn.halo > 0
    /\ \E a \in Axes(DIn.n_dims) : DIn.n_procs[a + 1] = 2
    /\ Len(arrs[0]) = 2

\* ---------------------------------------------------------------------
\*  SpecTrans: two decompositions of one grid; every rank synchronises its
\*  input (or not), then calls Transformer.forward and Transformer.backward
\* ---------------------------------------------------------------------
TransDims == {2}
MaxNT == 3       \* largest n_global[i] of the transformed grids
MaxHaloT == 1    \* largest halo of the two decompositions
GridsT == UNION {[1..d -> 1..MaxNT] : d \in TransDims}

Started(D0, scr) ==
    /\ raised = [r \in Ranks |-> "ok"]
    /\ script = scr
    /\ ip = [r \in Ranks |-> 1]
    /\ pc = [r \in Ranks |-> "call"]
    /\ axis = [r \in Ranks |-> 0]
    /\ arrs = [r \in Ranks |-> <<LocalArray(D0, r, 1)>>]
    /\ rbufs = [r \in Ranks |-> <<>>]
    /\ chan = [d \in Ranks |-> [s \in Ranks |-> <<>>]]
    /\ snap = [r \in Ranks |-> <<>>]
    /\ log = [r \in Ranks |-> <<>>]
    /\ stage = 0

TransScripts ==
    { <<[op |-> "sync", dom |-> "in", flat_axes |-> {}],
        [op |-> "forward", din |-> "in", dout |-> "out"],
        [op |-> "backward", din |-> "in", dout |-> "out"]>>,
      <<[op |-> "forward", din |-> "in", dout |-> "out"],
        [op |-> "backward", din |-> "in", dout |-> "out"]>> }

InitTrans ==
    /\ pin = <<>> /\ pout = <<>>
    /\ size \in 1..MaxProcs
    /\ \E g \in GridsT, h1 \in 0..MaxHaloT, h2 \in 0..MaxHaloT :
       \E s1 \in SUBSET Axes(Len(g)), s2 \in SUBSET Axes(Len(g)) :
          /\ Constructible(g, SetToSortedSeq(s1), size)
          /\ Constructible(g, SetToSortedSeq(s2), size)
          /\ doms = [n \in {"in", "out"} |->
                        IF n = "in"
                        THEN DomainDecomposition(g, h1, SetToSortedSeq(s1), size)
                        ELSE DomainDecomposition(g, h2, SetToSortedSeq(s2), size)]
          /\ NoRankRaises(doms["in"]) /\ NoRankRaises(doms["out"])
    /\ \E scr \in TransScripts : Started(doms["in"], scr)

NextTrans ==
    \/ \E r \in Ranks : sync_list(r)
    \/ \E r \in Ranks : sync_axis_Waitall(r)
    \/ \E r \in Ranks : transform(r)
    \/ \E r \in Ranks : transform_Waitall(r)

SpecTrans == InitTrans /\ [][NextTrans]_vars

\* index tuples of the owned region of the local array of rank r in D
OwnedCells(D, r) ==
    {t \in Box(my_subdomain(D, r).shape) :
        \A i \in 1..D.n_dims :
            D.halo <= t[i] /\ t[i] < D.halo + my_subdomain(D, r).inner_shape[i]}

\* global index of local index t of rank r in D
GlobalIndex(D, r, t) == [i \in 1..D.n_dims |-> t[i] - D.halo + my_subdomain(D, r).position[i]]

InSlice(A, sl, t) ==
    \A i \in 1..Len(t) : SliceLo(sl[i], A.shape[i]) <= t[i] /\ t[i] < SliceHi(sl[i], A.shape[i])

\* the overlaps (received or of the same process) that cover cell t of the
\* output array of rank r
Sources(domain_in, domain_out, r, t) ==
    LET info == get_overlap_info(domain_out, domain_in, r)
        A == Filled(my_subdomain(domain_out, r).shape, Zero)
    IN  {<<"recv", j>> : j \in {i \in 1..Len(info.processors) :
                                    InSlice(A, info.overlap_slices[i], t)}}
        \cup (IF info.slice_same_proc # None /\ InSlice(A, info.slice_same_proc[1], t)
              THEN {<<"same", 0>>} ELSE {})

OpIndex(name) == CHOOSE k \in 1..Len(script) : script[k].op = name

PySlice(lst, i, j) == SubSeq(lst, i + 1, Min(j, Len(lst)))

Reverse(s) == [i \in 1..Len(s) |-> s[Len(s) + 1 - i]]

\* while len(shared_axes_out) < n_shared_axes:
\*     shared_axes_out.append(axes.pop())
RECURSIVE FillSharedAxes(_, _, _)
FillSharedAxes(shared_axes_out, axes, n_shared_axes) ==
    IF Len(shared_axes_out) >= n_shared_axes THEN shared_axes_out
    ELSE FillSharedAxes(Append(shared_axes_out, axes[Len(axes)]),
                        SubSeq(axes, 1, Len(axes) - 1), n_shared_axes)

\* the length n of the groups the missing axes are split into
GroupLength(axes_missing, n_shared_axes) == Len(axes_missing)

\* shared_axes_mids: the shared axes of the intermediate decompositions
SharedAxesMids(axes_missing, shared_axes_out, n_shared_axes) ==
    IF Len(axes_missing) > 0
    THEN LET n == GroupLength(axes_missing, n_shared_axes)
             starts == SetToSortedSeq({i \in 0..(Len(axes_missing) - 1) : i % n = 0})
             groups == [k \in 1..Len(starts) |->
                            PySlice(axes_missing, starts[k], starts[k] + n)]
             last == PySlice(groups[Len(groups)] \o shared_axes_out, 0, n_shared_axes)
         IN  [groups EXCEPT ![Len(groups)] = last]
    ELSE <<>>

MissingAxesAll(shared_axes, missing_fft_axes) == SetToSortedSeq(SeqToSet(shared_axes))

\* missing_axes = list(set(shared_axes) & missing_fft_axes)
MissingAxes(shared_axes, missing_fft_axes) ==
    SetToSortedSeq(SeqToSet(shared_axes) \cap missing_fft_axes)

\* the loop over shared_axes_mids that appends to fft_axes, and the last
\* append for shared_axes_out
RECURSIVE FftAxesLoop(_, _, _, _)
FftAxesLoop(fft_axes, shared_axes_mids, shared_axes_out, missing_fft_axes) ==
    IF shared_axes_mids = <<>>
    THEN Append(fft_axes, MissingAxes(shared_axes_out, missing_fft_axes))
    ELSE LET missing_axes == MissingAxes(Head(shared_axes_mids), missing_fft_axes)
         IN  FftAxesLoop(Append(fft_axes, missing_axes), Tail(shared_axes_mids),
                         shared_axes_out, missing_fft_axes \ SeqToSet(missing_axes))

FftAxes(n_dims, shared_axes_in, shared_axes_mids, shared_axes_out) ==
    FftAxesLoop(<<shared_axes_in>>, shared_axes_mids, shared_axes_out,
                Axes(n_dims) \ SeqToSet(shared_axes_in))

\* only the test for an input without shared axis
shared_axes_rejected_if_none(n_shared_axes, shared_axes_out) == n_shared_axes = 0

\* the two tests of the number of shared axes (lines 86-92)
shared_axes_rejected(n_shared_axes, shared_axes_out) ==
    n_shared_axes = 0 \/ n_shared_axes < Len(shared_axes_out)

\* the constructor; status "ok", or the exception it ends with: ValueError
\* of its own checks or of the halo check of domain_out on some rank,
\* "MPIError" when Compute_dims cannot build one of the process grids
ParallelFFT(domain_in, shared_axes_out_arg, halo_out) ==
    LET n_dims == domain_in.n_dims
        n_global == domain_in.n_global
        nnodes == domain_in.size
        shared_axes_in == domain_in.shared_axes
        n_shared_axes == Len(shared_axes_in)
        ax_set_all == Axes(n_dims)
        ax_set_in == SeqToSet(shared_axes_in)
        axes_missing0 == SetToSortedSeq((ax_set_all \ ax_set_in) \ SeqToSet(shared_axes_out_arg))
        shared_axes_out == FillSharedAxes(shared_axes_out_arg,
                                          shared_axes_in \o axes_missing0, n_shared_axes)
        domain_out == DomainDecomposition(n_global, halo_out, shared_axes_out, nnodes)
        axes_missing == SetToSortedSeq((ax_set_all \ ax_set_in) \ SeqToSet(shared_axes_out))
        shared_axes_mids == SharedAxesMids(axes_missing, shared_axes_out, n_shared_axes)
        all_shared_axes == <<shared_axes_in>> \o shared_axes_mids \o <<shared_axes_out>>
        domain_list_all == [i \in 1..Len(all_shared_axes) |->
                               DomainDecomposition(n_global, 0, all_shared_axes[i], nnodes)]
        \* the list object the caller passed: `shared_axes_out or []` is that
        \* object unless it is empty, and append (line 101) extends it
        caller_list == IF shared_axes_out_arg = <<>> THEN <<>> ELSE shared_axes_out
        \* communicators_created counts the calls of Create_cart (one in each
        \* DomainDecomposition.__init__, before its halo check); built: the
        \* decompositions of domain_list_all before the first one whose
        \* process grid MPI refuses
        built == Cardinality({i \in 1..Len(all_shared_axes) :
                    \A j \in 1..i : Constructible(n_global, all_shared_axes[j], nnodes)})
    IN  IF shared_axes_rejected(n_shared_axes, shared_axes_out_arg)
        THEN [status |-> "ValueError", communicators_created |-> 0,
              caller_shared_axes_out |-> shared_axes_out_arg]
        ELSE IF ~ Constructible(n_global, shared_axes_out, nnodes)
        THEN [status |-> "MPIError", communicators_created |-> 0,
              caller_shared_axes_out |-> caller_list]
        ELSE IF ~ NoRankRaises(domain_out)
        THEN [status |-> "ValueError", communicators_created |-> 1,
              caller_shared_axes_out |-> caller_list]
        ELSE IF \E i \in 1..Len(all_shared_axes) :
                    ~ Constructible(n_global, all_shared_axes[i], nnodes)
        THEN [status |-> "MPIError", communicators_created |-> 1 + built,
              caller_shared_axes_out |-> caller_list]
        ELSE [ status               |-> "ok",
               communicators_created      |-> 1 + Len(all_shared_axes),
               caller_shared_axes_out |-> caller_list,
               domain_in            |-> domain_in,
               domain_out           |-> domain_out,
               shared_axes_out      |-> shared_axes_out,
               shared_axes_mids     |-> shared_axes_mids,
               domain_list_forward  |-> SubSeq(domain_list_all, 1, Len(domain_list_all) - 1)
                                           \o <<domain_out>>,
               domain_list_backward |-> <<domain_in>> \o Tail(domain_list_all),
               number_of_transforms |-> Len(shared_axes_mids) + 1,
               fft_axes             |-> FftAxes(n_dims, shared_axes_in, shared_axes_mids,
                                                shared_axes_out) ]

\* ---------------------------------------------------------------------
\*  The result of sync and of Transformer.transform on all ranks at once
\*  (what the message exchange between the Waitalls delivers): arrays is a
\*  function from the ranks to their local arrays
\* ---------------------------------------------------------------------
\* the buffers rank r receives in _sync_axis: first the one of its next
\* neighbour, then the one of its previous neighbour.  Each neighbour sends
\* first to its own next, then to its own prev, and a receive takes the
\* earliest message of its source.
SyncAxisAll(D, arrays, a) ==
    [r \in DOMAIN arrays |->
        LET nx == next_proc(D, r, a)
            pv == prev_proc(D, r, a)
            to_next(q) == View(arrays[q], SliceOnAxis(D.send_to_next, a, D.n_dims))
            to_prev(q) == View(arrays[q], SliceOnAxis(D.send_to_prev, a, D.n_dims))
            from_next == IF nx = pv THEN to_next(nx) ELSE to_prev(nx)
            from_prev == IF nx = pv THEN to_prev(pv) ELSE to_next(pv)
        IN  SyncCopy(D, <<arrays[r]>>, a, <<from_next, from_prev>>)[1]]

RECURSIVE SyncAllFrom(_, _, _)
SyncAllFrom(D, arrays, a) ==
    IF a >= D.n_dims THEN arrays
    ELSE IF D.n_procs[a + 1] = 1
         THEN SyncAllFrom(D, [r \in DOMAIN arrays |-> SameProc(D, arrays[r], a)], a + 1)
    ELSE SyncAllFrom(D, SyncAxisAll(D, arrays, a), a + 1)

\* domain.sync(arr) on every rank
SyncAll(D, arrays) == IF D.halo = 0 THEN arrays ELSE SyncAllFrom(D, arrays, 0)

\* the buffer rank src sends to rank dst in transform
SentTo(domain_in, domain_out, arrays, src, dst) ==
    LET info == get_overlap_info(domain_in, domain_out, src)
        j == CHOOSE j \in 1..Len(info.processors) : info.processors[j] = dst
    IN  View(arrays[src], info.overlap_slices[j])

\* transform(arr_in, same_domain, domain_in, domain_out) on every rank
TransformAll(same, domain_in, domain_out, arrays) ==
    IF same THEN arrays
    ELSE SyncAll(domain_out,
            [r \in DOMAIN arrays |->
                LET procs == get_overlap_info(domain_out, domain_in, r).processors
                IN  TransformCopy(domain_in, domain_out, r, arrays[r],
                        [j \in 1..Len(procs) |->
                            SentTo(domain_in, domain_out, arrays, procs[j], r)])])

\* the message exchange of SpecSync and SpecTrans delivers these results
SyncAllAgrees ==
    AllDone => [r \in Ranks |-> arrs[r][1]]
                  = SyncAll(DIn, [r \in Ranks |-> LocalArray(DIn, r, 1)])

TransformAllAgrees ==
    \A k \in 2..Len(script) :
        (\A r \in Ranks : Len(snap[r]) >= k) =>
            [r \in Ranks |-> snap[r][k][1]]
               = TransformAll(same_domain(doms["in"], doms["out"]),
                              doms[TrFrom(script[k])], doms[TrTo(script[k])],
                              [r \in Ranks |-> snap[r][k - 1][1]])

\* sync on a grid of 3 x 3 processes with one point each: the corners come
\* from the diagonal neighbours
Diagonal3x3 ==
    LET D == DomainDecomposition(<<3, 3>>, 1, <<>>, 9)
        A == SyncAll(D, [r \in 0..8 |-> LocalArray(D, r, 1)])
    IN  \A r \in 0..8 : CornersWrapped(D, [q \in 0..8 |-> <<A[q]>>], r)

\* the corners without an axis of exactly two processes
C22_CornersThreeOrMore ==
    /\ (AllDone /\ DIn.halo > 0 /\ \A a \in Axes(DIn.n_dims) : DIn.n_procs[a + 1] # 2)
          => \A r \in Ranks : CornersWrapped(DIn, arrs, r)
    /\ Diagonal3x3

C22_CornersThreeOrMoreWitness ==
    /\ AllDone /\ DIn.halo > 0 /\ DIn.n_dims >= 2
    /\ \E a \in Axes(DIn.n_dims) : DIn.n_procs[a + 1] >= 3

\* the neighbours of rank r along axis a form a periodic ring
PeriodicRing(D, r, a) ==
    LET nx == next_proc(D, r, a)
        pv == prev_proc(D, r, a)
        c == my_subdomain(D, r).coord
    IN  /\ nx \in 0..(D.size - 1) /\ pv \in 0..(D.size - 1)
        /\ prev_proc(D, nx, a) = r
        /\ next_proc(D, pv, a) = r
        /\ my_subdomain(D, nx).coord
              = [c EXCEPT ![a + 1] = (c[a + 1] + 1) % D.n_procs[a + 1]]

\* the rings of a grid of 2 x 3 processes
Ring2x3 ==
    LET D == DomainDecomposition(<<2, 3>>, 0, <<>>, 6)
    IN  /\ D.n_procs = <<3, 2>> \/ D.n_procs = <<2, 3>>
        /\ \A r \in 0..5 : \A a \in {0, 1} : PeriodicRing(D, r, a)

\* C34: the precomputed neighbour ranks form a periodic ring along every
\* axis: for every rank r and axis a, prev(next(r)) = r and
\* next(prev(r)) = r, where next(r) differs from r only in coordinate a,
\* which is (coord[a] + 1) mod n_procs[a].
C34_PeriodicRing ==
    /\ \A r \in Ranks :
          Constructed(r) => \A a \in Axes(DIn.n_dims) : PeriodicRing(DIn, r, a)
    /\ Ring2x3

\* three processes along an axis: next and prev are different ranks
C34_Witness ==
    /\ \A r \in Ranks : Constructed(r)
    /\ size = 3 /\ DIn.n_dims > 1
    /\ \E a \in Axes(DIn.n_dims) :
          /\ DIn.n_procs[a + 1] = 3
          /\ next_proc(DIn, 2, a) = 0 /\ prev_proc(DIn, 0, a) = 2
          /\ next_proc(DIn, 0, a) # prev_proc(DIn, 0, a)

\* C31: sync_list on a batch of arrays leaves every array in the state
\* that sync on each array separately gives: the data sent from the i-th
\* array of the batch on one rank is only ever written into the i-th array
\* of the batch on the receiving rank.
C31_BatchAsSeparate ==
    AllDone =>
        \A i \in 1..Len(arrs[0]) :
            /\ [r \in Ranks |-> arrs[r][i]]
                  = SyncAll(DIn, [r \in Ranks |-> LocalArray(DIn, r, i)])
            /\ \A r \in Ranks : \A t \in DOMAIN arrs[r][i].d :
                  arrs[r][i].d[t].k = "data" => arrs[r][i].d[t].a = i

\* a batch of two arrays was exchanged over an axis of two processes, where
\* all four messages of a rank come from the same neighbour
C31_Witness ==
    /\ AllDone /\ Len(arrs[0]) = 2 /\ DIn.halo > 0
    /\ \E a \in Axes(DIn.n_dims) : DIn.n_procs[a + 1] = 2
    /\ arrs[0][2] # LocalArray(DIn, 0, 2)
    /\ \E t \in DOMAIN arrs[1][2].d :
          /\ t \notin OwnedCells(DIn, 1)
          /\ arrs[1][2].d[t].k = "data"

\* C30, the calls: with the same-domain flag set, a call of forward or
\* backward returns at once with the array it was given; it posts no
\* request and starts no halo sync
C30_SameDomainCall ==
    [][\A r \in Ranks :
          ( /\ same_domain(doms["in"], doms["out"])
            /\ pc[r] = "call" /\ Op(r).op \in {"forward", "backward"}
            /\ <<pc'[r], ip'[r]>> # <<pc[r], ip[r]>> ) =>
              /\ arrs'[r] = arrs[r] /\ chan' = chan /\ rbufs' = rbufs
              /\ ip'[r] = ip[r] + 1 /\ pc'[r] \in {"call", "done"}]_vars

C30_SameDomainCallWitness ==
    /\ same_domain(doms["in"], doms["out"])
    /\ AllDone /\ size > 1 /\ doms["in"].halo > 0
    /\ Len(script) = 2
    /\ arrs[0] = <<LocalArray(doms["in"], 0, 1)>>

\* the owned region of rank a in D meets the owned region of rank b in E
RegionsMeet(D, a, E, b) ==
    \A i \in 1..D.n_dims :
        Owned(my_subdomain(D, a), i) \cap Owned(my_subdomain(E, b), i) # {}

\* the extent of the common part of the two owned regions on every axis
CommonExtent(D, a, E, b) ==
    [i \in 1..D.n_dims |->
        Cardinality(Owned(my_subdomain(D, a), i) \cap Owned(my_subdomain(E, b), i))]

\* rank r runs the code of Transformer.forward up to Waitall (or up to the
\* return of the same-domain case) in this step
ForwardIssued(r) ==
    /\ pc[r] = "call"
    /\ Op(r).op = "forward"
    /\ (pc'[r] # pc[r] \/ ip'[r] # ip[r])

forward_transforms(plan) ==
    [i \in 1..plan.number_of_transforms |->
        [same |-> same_domain(plan.domain_list_forward[i], plan.domain_list_forward[i + 1]),
         from |-> plan.domain_list_forward[i],
         to   |-> plan.domain_list_forward[i + 1]]]

backward_transforms(plan) ==
    Reverse([i \in 1..plan.number_of_transforms |->
        [same |-> same_domain(plan.domain_list_backward[i], plan.domain_list_backward[i + 1]),
         from |-> plan.domain_list_backward[i + 1],
         to   |-> plan.domain_list_backward[i]]])

\* the arguments forward_apply and backward_apply pass to transform; sign
\* is +1 for the transform function and -1 for its inverse
forward_args(plan) ==
    [domain_in |-> plan.domain_in, domain_out |-> plan.domain_out,
     transform_funs |-> forward_transforms(plan),
     fft_axes |-> plan.fft_axes, sign |-> 1]

backward_args_same_order(plan) ==
    [domain_in |-> plan.domain_out, domain_out |-> plan.domain_in,
     transform_funs |-> backward_transforms(plan),
     fft_axes |-> plan.fft_axes, sign |-> -1]

backward_args(plan) ==
    [domain_in |-> plan.domain_out, domain_out |-> plan.domain_in,
     transform_funs |-> backward_transforms(plan),
     fft_axes |-> Reverse(plan.fft_axes), sign |-> -1]

Invalid == [k |-> "invalid"]

\* the cells of arr on the lines through t along the axes of `axes`
LineCells(arr, t, axes) ==
    {u \in DOMAIN arr.d : \A i \in 1..Len(t) : (i - 1) \notin axes => u[i] = t[i]}

\* apply_fun(arr, axes): a transform along `axes` of the local array.  The
\* cell of index t becomes the transform of its line at index t when the
\* line holds the whole axis in order, every cell of it in the same state of
\* transformation; anything else gives a value that is no transform of the
\* data.
apply_fun(arr, axes, sign, n_global) ==
    [arr EXCEPT !.d =
        [t \in DOMAIN arr.d |->
            IF /\ arr.d[t].k = "data"
               /\ \A a \in axes : arr.shape[a + 1] = n_global[a + 1]
               /\ \A u \in LineCells(arr, t, axes) :
                     /\ arr.d[u].k = "data"
                     /\ arr.d[u].ft = arr.d[t].ft
                     /\ arr.d[u].a = arr.d[t].a
                     /\ \A a \in axes : arr.d[u].g[a + 1] = u[a + 1]
            THEN [arr.d[t] EXCEPT !.ft = [i \in DOMAIN @ |->
                                            IF (i - 1) \in axes THEN @[i] + sign ELSE @[i]]]
            ELSE IF axes = {} THEN arr.d[t]
            ELSE Invalid]]

TransformArgs == IF Op(0).op = "forward_apply" THEN forward_args(pout)
                 ELSE backward_args(pout)

Arrays == [r \in Ranks |-> arrs[r][1]]

\* the number of Isend and Irecv requests a rank issues in domain.sync(arr):
\* none without halo, and two sends and two receives on every axis with more
\* than one process
SyncRequests(D) ==
    IF D.halo = 0 THEN 0
    ELSE 4 * Cardinality({a \in Axes(D.n_dims) : D.n_procs[a + 1] # 1})

\* the number of Isend and Irecv requests rank r issues in one call of
\* transform, the final sync of arr_out included
TransformRequests(tr, r) ==
    IF tr.same THEN 0
    ELSE Len(get_overlap_info(tr.from, tr.to, r).processors)
         + Len(get_overlap_info(tr.to, tr.from, r).processors)
         + SyncRequests(tr.to)

\* one application of apply_fun on rank r and the number of requests of the
\* redistribution or sync that follows it
LogEntry(r, axes, D, arr, requests) ==
    [op |-> Op(0).op, stage |-> stage, axes |-> axes, n_procs |-> D.n_procs,
     inner_shape |-> my_subdomain(D, r).inner_shape, shape |-> arr.shape,
     requests |-> requests]

\* every rank constructs ParallelFFT(domain_in, shared_axes_out, halo_out)
ParallelFFT_init ==
    /\ \A r \in Ranks : pc[r] = "init"
    /\ pout' = ParallelFFT(doms["in"], pin.shared_axes_out, pin.halo_out)
    /\ raised' = [r \in Ranks |-> pout'.status]
    /\ pc' = [r \in Ranks |-> IF pout'.status = "ok" THEN "call" ELSE "raised"]
    /\ UNCHANGED <<pin, size, doms, script, ip, axis, arrs, rbufs, chan, snap, log, stage>>

\* transform, line 53: the halo cells of the input are removed
StripHalo(domain_in) ==
    /\ arrs' = [r \in Ranks |-> <<View(arrs[r][1], my_subdomain(domain_in, r).inner_slice)>>]
    /\ stage' = 1
    /\ pc' = [r \in Ranks |-> "transform"]
    /\ UNCHANGED <<pin, pout, size, doms, raised, script, ip, axis, rbufs, chan, snap, log>>

forward_apply ==
    /\ \A r \in Ranks : pc[r] = "call"
    /\ Op(0).op = "forward_apply"
    /\ StripHalo(forward_args(pout).domain_in)

backward_apply ==
    /\ \A r \in Ranks : pc[r] = "call"
    /\ Op(0).op = "backward_apply"
    /\ StripHalo(backward_args(pout).domain_in)

\* one pass of the loop of transform: apply_fun, then the redistribution
transform_loop ==
    /\ \A r \in Ranks : pc[r] = "transform"
    /\ stage <= Len(TransformArgs.transform_funs)
    /\ LET args == TransformArgs
           tr == args.transform_funs[stage]
           axes == SeqToSet(args.fft_axes[stage])
           applied == [r \in Ranks |->
                          apply_fun(arrs[r][1], axes, args.sign, tr.from.n_global)]
           moved == TransformAll(tr.same, tr.from, tr.to, applied)
       IN  /\ arrs' = [r \in Ranks |-> <<moved[r]>>]
           /\ log' = [r \in Ranks |-> Append(log[r], LogEntry(r, axes, tr.from, arrs[r][1],
                                                     TransformRequests(tr, r)))]
    /\ stage' = stage + 1
    /\ UNCHANGED <<pin, pout, size, doms, raised, script, ip, pc, axis, rbufs, chan, snap>>

\* the end of transform: the axes left are transformed on the inner slice
\* and the result is synchronised; the operation returns
transform_final ==
    /\ \A r \in Ranks : pc[r] = "transform"
    /\ stage > Len(TransformArgs.transform_funs)
    /\ LET args == TransformArgs
           D == args.domain_out
           last == args.fft_axes[Len(args.fft_axes)]
           in_s(r) == my_subdomain(D, r).inner_slice
           applied == [r \in Ranks |->
                          SetSlice(arrs[r][1], in_s(r),
                                   apply_fun(View(arrs[r][1], in_s(r)), SeqToSet(last),
                                             args.sign, D.n_global))]
           res == IF last # <<>> THEN SyncAll(D, applied) ELSE Arrays
       IN  /\ arrs' = [r \in Ranks |-> <<res[r]>>]
           /\ snap' = [r \in Ranks |-> Append(snap[r], <<res[r]>>)]
           /\ log' = [r \in Ranks |->
                        IF last # <<>>
                        THEN Append(log[r], LogEntry(r, SeqToSet(last), D,
                                                     View(arrs[r][1], in_s(r)),
                                                     SyncRequests(D)))
                        ELSE log[r]]
    /\ ip' = [r \in Ranks |-> ip[r] + 1]
    /\ pc' = [r \in Ranks |-> IF ip[r] = Len(script) THEN "done" ELSE "call"]
    /\ stage' = 0
    /\ UNCHANGED <<pin, pout, size, doms, raised, script, axis, rbufs, chan>>

\* ---------------------------------------------------------------------
\*  SpecFFT: a decomposition of a grid of 2 or 3 dimensions, the
\*  constructor of ParallelFFT, then forward_apply and backward_apply
\* ---------------------------------------------------------------------
MaxProcsF == 4   \* largest MPI.COMM_WORLD.Get_size()
MaxNF == 2       \* largest n_global[i]
MaxCellsF == 8   \* largest number of grid points
HalosF == {0, 1} \* the halo of domain_in and halo_out
FFTDims == {2, 3}

GridsF ==
    {g \in UNION {[1..d -> 1..MaxNF] : d \in FFTDims} : Prod(g, 1, Len(g)) <= MaxCellsF}

\* lists of distinct axes
AxisLists(d) ==
    {s \in UNION {[1..k -> Axes(d)] : k \in 0..d} :
        \A i \in 1..Len(s), j \in 1..Len(s) : i # j => s[i] # s[j]}

InitFFT ==
    /\ size \in 1..MaxProcsF
    /\ \E g \in GridsF, h \in HalosF, h_out \in HalosF :
       \E sh \in SUBSET Axes(Len(g)), out \in AxisLists(Len(g)) :
          /\ Constructible(g, SetToSortedSeq(sh), size)
          /\ pin = [shared_axes_out |-> out, halo_out |-> h_out]
          /\ doms = [n \in {"in"} |-> DomainDecomposition(g, h, SetToSortedSeq(sh), size)]
          /\ NoRankRaises(doms["in"])
    /\ pout = <<>>
    /\ raised = [r \in Ranks |-> "none"]
    /\ script = <<[op |-> "forward_apply"], [op |-> "backward_apply"]>>
    /\ ip = [r \in Ranks |-> 1]
    /\ pc = [r \in Ranks |-> "init"]
    /\ axis = [r \in Ranks |-> 0]
    /\ arrs = [r \in Ranks |-> <<LocalArray(doms["in"], r, 1)>>]
    /\ rbufs = [r \in Ranks |-> <<>>]
    /\ chan = [d \in Ranks |-> [s \in Ranks |-> <<>>]]
    /\ snap = [r \in Ranks |-> <<>>]
    /\ log = [r \in Ranks |-> <<>>]
    /\ stage = 0

NextFFT ==
    \/ ParallelFFT_init
    \/ forward_apply
    \/ backward_apply
    \/ transform_loop
    \/ transform_final

SpecFFT == InitFFT /\ [][NextFFT]_vars

Planned == pout # <<>> /\ pout.status = "ok"

\* the applications of apply_fun by operation op on rank r that transform
\* at least one axis, in order
Applications(r, op) ==
    SelectSeq(log[r], LAMBDA e : e.op = op /\ e.axes # {})

C6_EveryAxisTransformed ==
    Planned =>
        /\ \A a \in Axes(DIn.n_dims) :
              \E i \in 1..Len(pout.fft_axes) : a \in SeqToSet(pout.fft_axes[i])
        /\ \A r \in Ranks :
              Len(snap[r]) >= 1 =>
                 \A t \in OwnedCells(pout.domain_out, r) :
                    /\ snap[r][1][1].d[t].k = "data"
                    /\ \A i \in 1..DIn.n_dims : snap[r][1][1].d[t].ft[i] = 1

\* C7: the transform axes of the stages of a chain are pairwise disjoint,
\* and no axis is transformed by more than one application of forward, nor
\* by more than one of backward.
C7_StagesDisjoint ==
    Planned =>
        /\ \A i \in 1..Len(pout.fft_axes), j \in 1..Len(pout.fft_axes) :
              i # j => SeqToSet(pout.fft_axes[i]) \cap SeqToSet(pout.fft_axes[j]) = {}
        /\ \A r \in Ranks : \A op \in {"forward_apply", "backward_apply"} :
              LET s == Applications(r, op)
              IN  \A i \in 1..Len(s), j \in 1..Len(s) :
                     i # j => s[i].axes \cap s[j].axes = {}

C7_Witness ==
    /\ AllDone /\ size > 1
    /\ SeqToSet(pout.shared_axes_out) \cap SeqToSet(DIn.shared_axes) # {}
    /\ Len(Applications(0, "forward_apply")) >= 2

\* C8: apply_fun is applied along an axis only to data laid out in a
\* decomposition with one process along that axis: the array it is given
\* has the shape of the owned region of that decomposition and holds the
\* whole axis.
C8_OnlyLocalAxes ==
    \A r \in Ranks : \A k \in 1..Len(log[r]) :
        LET e == log[r][k]
        IN  /\ e.shape = e.inner_shape
            /\ \A a \in e.axes :
                  /\ e.n_procs[a + 1] = 1
                  /\ e.shape[a + 1] = DIn.n_global[a + 1]

C8_Witness ==
    /\ AllDone /\ size > 1
    /\ \E k \in 1..Len(log[0]) :
          /\ log[0][k].op = "backward_apply"
          /\ log[0][k].axes # {}
          /\ \E a \in Axes(DIn.n_dims) : log[0][k].n_procs[a + 1] > 1
    /\ \E a \in Axes(DIn.n_dims) : DIn.n_procs[a + 1] > 1 /\ pout.domain_out.n_procs[a + 1] = 1

\* m: the axes shared neither in the input decomposition nor in the
\* filled-up shared_axes_out
MissingCount ==
    Cardinality(Axes(DIn.n_dims)
                \ (SeqToSet(DIn.shared_axes) \cup SeqToSet(pout.shared_axes_out)))

\* C26: the number of intermediate decompositions of a chain is
\* ceil(m / s), with m the number of axes shared neither in the input nor in
\* the filled-up shared_axes_out and s the number of shared axes of the
\* input: groups of s missing axes, one intermediate decomposition each.
C26_ChainLength ==
    Planned =>
        LET s == Len(DIn.shared_axes)
        IN  /\ Len(pout.shared_axes_mids) = (MissingCount + s - 1) \div s
            /\ pout.number_of_transforms = Len(pout.shared_axes_mids) + 1
            /\ \A i \in 1..Len(pout.shared_axes_mids) :
                  Len(pout.shared_axes_mids[i]) = s

\* the same for chains with at most s missing axes
C26_ChainLengthOneGroup ==
    (Planned /\ MissingCount <= Len(DIn.shared_axes)) =>
        LET s == Len(DIn.shared_axes)
        IN  /\ Len(pout.shared_axes_mids) = (MissingCount + s - 1) \div s
            /\ pout.number_of_transforms = Len(pout.shared_axes_mids) + 1
            /\ \A i \in 1..Len(pout.shared_axes_mids) :
                  Len(pout.shared_axes_mids[i]) = s

C26_ChainLengthOneGroupWitness ==
    /\ Planned /\ AllDone
    /\ MissingCount = 1
    /\ Len(pout.shared_axes_mids) = 1

\* C33: ParallelFFT construction fails with ValueError when the input
\* decomposition has no shared axis, and when shared_axes_out names more
\* axes than the input decomposition has shared axes; in both cases the
\* error is raised before any output or intermediate decomposition
\* (communicator) is created.
C33_RejectedFirst ==
    (pout # <<>> /\ (Len(DIn.shared_axes) = 0
                     \/ Len(DIn.shared_axes) < Len(pin.shared_axes_out))) =>
        /\ pout.status = "ValueError"
        /\ pout.communicators_created = 0
        /\ \A r \in Ranks : raised[r] = "ValueError" /\ pc[r] = "raised"

\* the constructor has raised for an input without shared axis
C33_Witness ==
    /\ pout # <<>> /\ Len(DIn.shared_axes) = 0 /\ size > 1
    /\ pout.status = "ValueError"

\* the constructor has raised for too many axes in shared_axes_out
C33_WitnessTooMany ==
    /\ pout # <<>> /\ Len(DIn.shared_axes) > 0
    /\ Len(DIn.shared_axes) < Len(pin.shared_axes_out)
    /\ pout.status = "ValueError"

\* C37: constructing a ParallelFFT leaves the caller's shared_axes_out list
\* unchanged: the same elements in the same order after the constructor
\* returns as before.
C37_ListUnchanged ==
    (pout # <<>> /\ pout.status = "ok") =>
        pout.caller_shared_axes_out = pin.shared_axes_out

\* the same when the list is empty or already names as many axes as the
\* input decomposition shares
C37_ListUnchangedFull ==
    ( /\ pout # <<>> /\ pout.status = "ok"
      /\ \/ pin.shared_axes_out = <<>>
         \/ Len(pin.shared_axes_out) = Len(DIn.shared_axes) ) =>
        pout.caller_shared_axes_out = pin.shared_axes_out

C37_ListUnchangedFullWitness ==
    /\ pout # <<>> /\ pout.status = "ok"
    /\ pin.shared_axes_out = <<>>
    /\ pout.shared_axes_out # <<>>
    /\ pout.caller_shared_axes_out = <<>>

\* C20: with a total process count of 1 no message is sent or received by
\* ParallelFFT.forward / backward, the calls of Transformer.forward / backward
\* and of DomainDecomposition.sync they make included: every redistribution
\* and every sync issues no Isend and no Irecv request, for every halo of the
\* input decomposition and every halo_out.
C20_SingleProcessLocal ==
    size = 1 =>
        /\ \A k \in 1..Len(log[0]) : log[0][k].requests = 0
        /\ Planned =>
              /\ \A i \in 1..pout.number_of_transforms :
                    /\ TransformRequests(forward_transforms(pout)[i], 0) = 0
                    /\ TransformRequests(backward_transforms(pout)[i], 0) = 0
              /\ SyncRequests(pout.domain_in) = 0
              /\ SyncRequests(pout.domain_out) = 0

\* a forward and a backward transform on one process between decompositions
\* of different halos, so that transform takes the path with the requests
C20_Witness ==
    /\ size = 1 /\ AllDone
    /\ DIn.halo # pout.domain_out.halo
    /\ \E k \in 1..Len(log[0]) :
          log[0][k].op = "forward_apply" /\ ~ forward_transforms(pout)[1].same
    /\ \E k \in 1..Len(log[0]) : log[0][k].op = "backward_apply"

\* the same on the channels of SpecSync and SpecTrans: with one process no
\* message is queued and no receive is posted
C20_NoMessageQueued ==
    size = 1 => rbufs[0] = <<>> /\ chan[0][0] = <<>>

\* ---------------------------------------------------------------------
\*  DomainDecomposition.apply_boundary_condition
\* ---------------------------------------------------------------------
\* the value bc written by a boundary condition
BC == [k |-> "bc"]

\* _apply_left_boundary_condition
_apply_left_boundary_condition(D, r, arr, a) ==
    IF my_subdomain(D, r).is_left_edge[a + 1]
    THEN SetSlice(arr, SliceOnAxis(D.recv_from_prev, a, D.n_dims),
                  Filled(SlShape(arr, SliceOnAxis(D.recv_from_prev, a, D.n_dims)), BC))
    ELSE arr

\* _apply_right_boundary_condition
_apply_right_boundary_condition(D, r, arr, a) ==
    IF my_subdomain(D, r).is_right_edge[a + 1]
    THEN SetSlice(arr, SliceOnAxis(D.recv_from_next, a, D.n_dims),
                  Filled(SlShape(arr, SliceOnAxis(D.recv_from_next, a, D.n_dims)), BC))
    ELSE arr

side_is_known_or_empty(side) == side \in {"left", "right", ""}

\* the sides apply_boundary_condition accepts
side_is_known(side) == side \in {"left", "right"}

\* rank r calls apply_boundary_condition(arr, bc, axis, side)
apply_boundary_condition(r) ==
    /\ pc[r] = "call"
    /\ Op(r).op = "apply_boundary_condition"
    /\ IF side_is_known(Op(r).side)
       THEN /\ Return(r, <<IF Op(r).side = "left"
                           THEN _apply_left_boundary_condition(
                                    doms["in"], r, arrs[r][1], Op(r).axis)
                           ELSE _apply_right_boundary_condition(
                                    doms["in"], r, arrs[r][1], Op(r).axis)>>, chan)
            /\ UNCHANGED raised
       ELSE /\ raised' = [raised EXCEPT ![r] = "ValueError"]
            /\ pc' = [pc EXCEPT ![r] = "raised"]
            /\ UNCHANGED <<arrs, chan, rbufs, snap, ip, axis>>
    /\ UNCHANGED <<pin, pout, size, doms, script, log, stage>>

\* ---------------------------------------------------------------------
\*  SpecBC: every rank of a decomposition calls apply_boundary_condition
\*  once, all with the same axis and side
\* ---------------------------------------------------------------------
Sides == {"left", "right", "", "Left", "top"}

InitBC ==
    /\ pin = <<>> /\ pout = <<>>
    /\ size \in 1..MaxProcs
    /\ \E g \in GridsT, h \in 0..MaxHaloT :
       \E sh \in SUBSET Axes(Len(g)) :
          /\ Constructible(g, SetToSortedSeq(sh), size)
          /\ doms = [n \in {"in"} |-> DomainDecomposition(g, h, SetToSortedSeq(sh), size)]
          /\ NoRankRaises(doms["in"])
    /\ \E a \in Axes(doms["in"].n_dims), s \in Sides :
          Started(doms["in"], <<[op |-> "apply_boundary_condition", axis |-> a, side |-> s]>>)

NextBC == \E r \in Ranks : apply_boundary_condition(r)

SpecBC == InitBC /\ [][NextBC]_vars

\* cells of the local array of rank r in the lower / upper halo along a
LowerHalo(D, r, a) == {t \in Box(my_subdomain(D, r).shape) : t[a + 1] < D.halo}
UpperHalo(D, r, a) ==
    {t \in Box(my_subdomain(D, r).shape) :
        t[a + 1] >= D.halo + my_subdomain(D, r).inner_shape[a + 1]}

\* the array of rank r after apply_boundary_condition as C11 states it
BCExpected(D, r, a, side) ==
    LET A == LocalArray(D, r, 1)
        edge == IF side = "left" THEN my_subdomain(D, r).is_left_edge[a + 1]
                ELSE my_subdomain(D, r).is_right_edge[a + 1]
        region == IF side = "left" THEN LowerHalo(D, r, a) ELSE UpperHalo(D, r, a)
    IN  [A EXCEPT !.d = [t \in DOMAIN A.d |->
                            IF edge /\ t \in region THEN BC ELSE A.d[t]]]

\* C11: with side "left" exactly the lower halo along axis is overwritten
\* with bc on the ranks with is_left_edge[axis], with side "right" exactly
\* the upper halo on the ranks with is_right_edge[axis]; nothing changes on
\* any other rank.
C11_BoundaryCondition ==
    \A r \in Ranks :
        (pc[r] = "done" /\ script[1].side \in {"left", "right"}) =>
            arrs[r][1] = BCExpected(DIn, r, script[1].axis, script[1].side)

\* the same for decompositions with halo > 0
C11_PositiveHalo ==
    \A r \in Ranks :
        (pc[r] = "done" /\ script[1].side \in {"left", "right"} /\ DIn.halo > 0) =>
            arrs[r][1] = BCExpected(DIn, r, script[1].axis, script[1].side)

C11_PositiveHaloWitness ==
    /\ AllDone /\ DIn.halo > 0 /\ size > 1
    /\ DIn.n_procs[script[1].axis + 1] > 1
    /\ script[1].side = "right"

\* C12: for every side other than "left" and "right" the call raises
\* ValueError on every rank, whatever its edge flags, and the array is left
\* as it was; for "left" and "right" it does not raise.
C12_UnknownSide ==
    \A r \in Ranks :
        /\ (pc[r] # "call" /\ script[1].side \notin {"left", "right"}) =>
              /\ raised[r] = "ValueError" /\ pc[r] = "raised"
              /\ arrs[r][1] = LocalArray(DIn, r, 1)
        /\ script[1].side \in {"left", "right"} => raised[r] = "ok"

C12_Witness ==
    /\ \A r \in Ranks : pc[r] = "raised"
    /\ size > 1 /\ script[1].side = ""
    /\ \E r \in Ranks : my_subdomain(DIn, r).is_left_edge[script[1].axis + 1]
    /\ \E r \in Ranks : ~ my_subdomain(DIn, r).is_left_edge[script[1].axis + 1]

\* C29: apply_boundary_condition never changes a cell of the owned region,
\* for every halo >= 0, both sides and every rank; with halo = 0, where no
\* halo region exists, it changes nothing.
C29_OwnedKept ==
    \A r \in Ranks :
        /\ \A t \in OwnedCells(DIn, r) : arrs[r][1].d[t] = LocalArray(DIn, r, 1).d[t]
        /\ DIn.halo = 0 => arrs[r][1] = LocalArray(DIn, r, 1)

\* the same for decompositions with halo > 0
C29_OwnedKeptPositiveHalo ==
    \A r \in Ranks :
        DIn.halo > 0 =>
            \A t \in OwnedCells(DIn, r) : arrs[r][1].d[t] = LocalArray(DIn, r, 1).d[t]

C29_OwnedKeptPositiveHaloWitness ==
    /\ AllDone /\ DIn.halo > 0
    /\ script[1].side = "left"
    /\ \E r \in Ranks : arrs[r][1] # LocalArray(DIn, r, 1)
    /\ \E r \in Ranks : arrs[r][1] = LocalArray(DIn, r, 1)

\* every receive rank r has posted can be completed: for every source and
\* communicator there are at least as many messages waiting as receives
AllArrived(r) ==
    \A k \in 1..Len(rbufs[r]) :
        LET p == rbufs[r][k]
            waiting == {i \in 1..Len(chan[r][p.source]) :
                           chan[r][p.source][i].comm = p.comm}
            posted == {i \in 1..Len(rbufs[r]) :
                          rbufs[r][i].source = p.source /\ rbufs[r][i].comm = p.comm}
        IN  Cardinality(waiting) >= Cardinality(posted)

\* C13: while rank r waits in the exchange of an axis, its arrays are
\* written only in a step at whose start every receive it posted for the
\* axis has its message (the sends are buffered when issued); until then the
\* arrays stay as they were when the sends were issued.
C13_NoEarlyWrite ==
    [][\A r \in Ranks :
          (pc[r] = "sync_wait" /\ arrs'[r] # arrs[r]) => AllArrived(r)]_vars

\* a rank waits with the message of one neighbour there and the other not
C13_Witness ==
    \E r \in Ranks :
        /\ pc[r] = "sync_wait"
        /\ Len(arrs[r]) = 2
        /\ \E s \in Ranks : chan[r][s] # <<>>
        /\ ~ AllArrived(r)

Idle == [x \in {} |-> 0]

\* ---------------------------------------------------------------------
\*  Subdomain.l2g_slice
\* ---------------------------------------------------------------------
\* zip(local_slice, self.position): tuples of two entries
Zip(s, t) == [i \in 1..Min(Len(s), Len(t)) |-> <<s[i], t[i]>>]

\* `for l, p, s in zip(local_slice, self.position)`: each tuple of the zip is
\* unpacked into the three names l, p, s; unpacking a tuple of another
\* length raises ValueError.  The result is [status, value].
l2g_slice(self, local_slice) ==
    LET zipped == Zip(local_slice, self.position)
        targets == <<"l", "p", "s">>
    IN  IF \E i \in 1..Len(zipped) : Len(zipped[i]) # Len(targets)
        THEN [status |-> "ValueError", value |-> <<>>]
        ELSE [status |-> "ok",
              value |-> [i \in 1..Len(zipped) |->
                  slice(Some(zipped[i][1].start[1] + zipped[i][2] - self.halo),
                        Some(zipped[i][1].stop[1] + zipped[i][2] - self.halo))]]

\* ---------------------------------------------------------------------
\*  SpecPair: two Subdomains A and B over one n_global, of two process
\*  grids with their own halos; the methods of Subdomain are called in turn
\* ---------------------------------------------------------------------
MaxNP == 4       \* largest n_global[i] of the pair
MaxPP == 4       \* largest number of processes of a grid of the pair
MaxCellsP == 4   \* largest number of grid points in two dimensions
PairDims == {1, 2}

GridsP ==
    {g \in UNION {[1..d -> 1..MaxNP] : d \in PairDims} :
        Len(g) > 1 => Prod(g, 1, Len(g)) <= MaxCellsP}

ProcGrids(d) == {p \in [1..d -> 1..MaxPP] : Prod(p, 1, d) <= MaxPP}

InitPair ==
    /\ \E g \in GridsP, ha \in HalosF, hb \in HalosF :
       \E pa \in ProcGrids(Len(g)), pb \in ProcGrids(Len(g)) :
       \E ra \in 0..(Prod(pa, 1, Len(g)) - 1), rb \in 0..(Prod(pb, 1, Len(g)) - 1) :
          pin = [A |-> Subdomain(ra, pa, g, ha), B |-> Subdomain(rb, pb, g, hb)]
    /\ pout = <<>>
    /\ stage = 0
    /\ size = 0 /\ doms = Idle /\ raised = Idle /\ script = <<>>
    /\ ip = Idle /\ pc = Idle /\ axis = Idle /\ arrs = Idle
    /\ rbufs = Idle /\ chan = Idle /\ snap = Idle /\ log = Idle

PairFrame == UNCHANGED <<pin, size, doms, raised, script, ip, pc, axis, arrs,
                         rbufs, chan, snap, log>>

\* A.has_overlap(B) and B.has_overlap(A)
call_has_overlap ==
    /\ stage = 0
    /\ pout' = Append(pout, [ab |-> has_overlap(pin.A, pin.B),
                             ba |-> has_overlap(pin.B, pin.A)])
    /\ stage' = 1
    /\ PairFrame

\* A.get_overlap_slice(B) and B.get_overlap_slice(A)
call_get_overlap_slice ==
    /\ stage = 1
    /\ pout' = Append(pout, [ab |-> get_overlap_slice(pin.A, pin.B),
                             ba |-> get_overlap_slice(pin.B, pin.A)])
    /\ stage' = 2
    /\ PairFrame

\* A.l2g_slice(A.get_overlap_slice(B)) and B.l2g_slice(B.get_overlap_slice(A))
call_l2g_slice ==
    /\ stage = 2
    /\ pout' = Append(pout, [ab |-> l2g_slice(pin.A, pout[2].ab),
                             ba |-> l2g_slice(pin.B, pout[2].ba)])
    /\ stage' = 3
    /\ PairFrame

\* A.l2g_slice(A.g2l_slice(s)) for s the global_slice of B
call_g2l_l2g ==
    /\ stage = 3
    /\ pout' = Append(pout, [s |-> pin.B.global_slice,
                             local |-> g2l_slice(pin.A, pin.B.global_slice),
                             back |-> l2g_slice(pin.A, g2l_slice(pin.A, pin.B.global_slice))])
    /\ stage' = 4
    /\ PairFrame

NextPair ==
    \/ call_has_overlap
    \/ call_get_overlap_slice
    \/ call_l2g_slice
    \/ call_g2l_l2g

SpecPair == InitPair /\ [][NextPair]_vars

\* the half-open intervals [position, position + inner_shape) of A and B
\* meet on axis i
IntervalsMeet(A, B, i) ==
    ~ (\/ A.position[i] >= B.position[i] + B.inner_shape[i]
       \/ B.position[i] >= A.position[i] + A.inner_shape[i])

\* C14: A.has_overlap(B) equals B.has_overlap(A), and is true exactly when
\* on every axis the half-open intervals of A and B meet, also for
\* Subdomains that own no point along an axis.
C14_HasOverlap ==
    stage >= 1 =>
        /\ pout[1].ab = pout[1].ba
        /\ pout[1].ab = (\A i \in 1..Len(pin.A.n_global) : IntervalsMeet(pin.A, pin.B, i))
        /\ pout[1].ab = (\A i \in 1..Len(pin.A.n_global) :
                            Owned(pin.A, i) \cap Owned(pin.B, i) # {})

C14_Witness ==
    /\ stage >= 1
    /\ Len(pin.A.n_global) = 2
    /\ \E i \in 1..2 : pin.A.inner_shape[i] = 0
    /\ \E i \in 1..2 : pin.B.inner_shape[i] > 1
    /\ pin.A.halo # pin.B.halo

\* the interval [max(starts), min(stops)) of A and B on every axis
GlobalOverlap(A, B) ==
    [i \in 1..Len(A.n_global) |->
        slice(Some(Max(A.position[i], B.position[i])),
              Some(Min(A.position[i] + A.inner_shape[i],
                       B.position[i] + B.inner_shape[i])))]

\* C15: for overlapping A and B, l2g_slice of A applied to
\* A.get_overlap_slice(B) and l2g_slice of B applied to
\* B.get_overlap_slice(A) both return the interval [max(starts), min(stops))
\* on every axis.
C15_OverlapInGlobalCoordinates ==
    (stage >= 3 /\ pout[1].ab) =>
        /\ pout[3].ab.status = "ok" /\ pout[3].ba.status = "ok"
        /\ pout[3].ab.value = pout[3].ba.value
        /\ pout[3].ab.value = GlobalOverlap(pin.A, pin.B)

\* C16: l2g_slice(g2l_slice(s)) returns s, where g2l_slice maps each bound
\* to global - position + halo.
C16_L2GInverse ==
    stage >= 4 =>
        /\ \A i \in 1..Len(pout[4].s) :
              /\ pout[4].local[i].start[1]
                    = pout[4].s[i].start[1] - pin.A.position[i] + pin.A.halo
              /\ pout[4].local[i].stop[1]
                    = pout[4].s[i].stop[1] - pin.A.position[i] + pin.A.halo
        /\ pout[4].back.status = "ok"
        /\ pout[4].back.value = pout[4].s

\* C17: for A and B that do not overlap, get_overlap_slice returns slices
\* that select no element of the local array of A (shape inner_shape +
\* 2 * halo) under the slice semantics of Python.
C17_NoOverlapSelectsNothing ==
    (stage >= 2 /\ ~ pout[1].ab) =>
        \E i \in 1..Len(pin.A.shape) : SliceLen(pout[2].ab[i], pin.A.shape[i]) = 0

\* ---------------------------------------------------------------------
\*  SpecCtor: Transformer(domain_in, domain_out) is constructed on every
\*  rank from two decompositions that need not share n_global
\* ---------------------------------------------------------------------
\* Transformer.__init__ on rank r: the constructor has no statement that
\* raises; it computes the flag and the two overlap infos
Transformer(domain_in, domain_out, r) ==
    [ status |-> "ok",
      same_domain |-> same_domain(domain_in, domain_out),
      overlap_info_in |-> get_overlap_info(domain_in, domain_out, r),
      overlap_info_out |-> get_overlap_info(domain_out, domain_in, r) ]

CtorDims == {1, 2}

InitCtor ==
    /\ size \in 1..MaxProcs
    /\ \E g1 \in Grids(CtorDims), g2 \in Grids(CtorDims) :
       \E h1 \in 0..MaxHaloT, h2 \in 0..MaxHaloT :
       \E s1 \in SUBSET Axes(Len(g1)), s2 \in SUBSET Axes(Len(g2)) :
          /\ Constructible(g1, SetToSortedSeq(s1), size)
          /\ Constructible(g2, SetToSortedSeq(s2), size)
          /\ doms = [n \in {"in", "out"} |->
                        IF n = "in"
                        THEN DomainDecomposition(g1, h1, SetToSortedSeq(s1), size)
                        ELSE DomainDecomposition(g2, h2, SetToSortedSeq(s2), size)]
          /\ NoRankRaises(doms["in"]) /\ NoRankRaises(doms["out"])
    /\ pc = [r \in Ranks |-> "init"]
    /\ pout = [r \in Ranks |-> <<>>]
    /\ pin = <<>> /\ raised = Idle /\ script = <<>>
    /\ ip = Idle /\ axis = Idle /\ arrs = Idle
    /\ rbufs = Idle /\ chan = Idle /\ snap = Idle /\ log = Idle /\ stage = 0

Transformer_init(r) ==
    /\ pc[r] = "init"
    /\ pout' = [pout EXCEPT ![r] = Transformer(doms["in"], doms["out"], r)]
    /\ pc' = [pc EXCEPT ![r] = "done"]
    /\ UNCHANGED <<pin, size, doms, raised, script, ip, axis, arrs, rbufs, chan,
                   snap, log, stage>>

NextCtor == \E r \in Ranks : Transformer_init(r)

SpecCtor == InitCtor /\ [][NextCtor]_vars

\* C21: a Transformer of two decompositions whose n_global or number of
\* dimensions differ is not constructed: the constructor raises, and the
\* pair is never given the same-domain flag.
C21_MismatchRejected ==
    \A r \in Ranks :
        (pc[r] = "done" /\ doms["in"].n_global # doms["out"].n_global) =>
            /\ pout[r].status # "ok"
            /\ ~ pout[r].same_domain

\* C30: the same-domain flag of a Transformer is true if and only if the
\* two decompositions have identical n_procs on every axis and identical
\* halo; when it is true, forward and backward send no message, perform no
\* halo sync and return an array whose contents equal arr_in.
C30_SameDomainFlag ==
    \A r \in Ranks :
        pc[r] = "done" =>
            (pout[r].same_domain <=>
                /\ doms["in"].n_procs = doms["out"].n_procs
                /\ doms["in"].halo = doms["out"].halo)

\* the flag for two decompositions of the same number of dimensions
C30_SameDomainFlagSameDims ==
    \A r \in Ranks :
        (pc[r] = "done" /\ doms["in"].n_dims = doms["out"].n_dims) =>
            (pout[r].same_domain <=>
                /\ doms["in"].n_procs = doms["out"].n_procs
                /\ doms["in"].halo = doms["out"].halo)

C30_SameDomainFlagSameDimsWitness ==
    /\ \A r \in Ranks : pc[r] = "done" /\ pout[r].same_domain
    /\ size > 1 /\ doms["in"].n_dims = 2 /\ doms["out"].n_dims = 2
    /\ doms["in"].halo > 0
    /\ \E a \in Axes(2) : doms["in"].n_procs[a + 1] > 1

\* ---------------------------------------------------------------------
\*  SpecCart: the ranks of the processes in the cartesian communicators of
\*  two decompositions.  MPI.COMM_WORLD.Create_cart(n_procs, reorder) may
\*  give a process another rank than it has in COMM_WORLD when reorder is
\*  set; which one is left to the MPI library.
\* ---------------------------------------------------------------------
\* the assignments process -> rank Create_cart can return
Create_cart(nnodes, reorder) ==
    IF reorder
    THEN {f \in [0..(nnodes - 1) -> 0..(nnodes - 1)] :
             \A p, q \in 0..(nnodes - 1) : p # q => f[p] # f[q]}
    ELSE {[p \in 0..(nnodes - 1) |-> p]}

\* the process that holds rank i in the communicator with assignment f
ProcessOf(f, i) == CHOOSE p \in DOMAIN f : f[p] = i

InitCart ==
    /\ size \in 1..MaxProcs
    /\ \E g \in GridsT :
       \E s1 \in SUBSET Axes(Len(g)), s2 \in SUBSET Axes(Len(g)) :
          /\ Constructible(g, SetToSortedSeq(s1), size)
          /\ Constructible(g, SetToSortedSeq(s2), size)
          /\ doms = [n \in {"in", "out"} |->
                        IF n = "in"
                        THEN DomainDecomposition(g, 0, SetToSortedSeq(s1), size)
                        ELSE DomainDecomposition(g, 0, SetToSortedSeq(s2), size)]
    /\ \E reorder_comm \in BOOLEAN :
       \E f1 \in Create_cart(size, reorder_comm), f2 \in Create_cart(size, reorder_comm) :
          /\ doms["in"].n_procs = doms["out"].n_procs => f1 = f2
          /\ pin = [reorder_comm |-> reorder_comm, rank_in |-> f1, rank_out |-> f2]
    /\ pc = [p \in Ranks |-> "init"]
    /\ pout = [p \in Ranks |-> <<>>]
    /\ raised = Idle /\ script = <<>>
    /\ ip = Idle /\ axis = Idle /\ arrs = Idle
    /\ rbufs = Idle /\ chan = Idle /\ snap = Idle /\ log = Idle /\ stage = 0

\* process p constructs Transformer(domain_in, domain_out): its ranks, its
\* overlap infos, and for every destination rank of its sends the process
\* that the send on domain_in.comm reaches
Transformer_on_process(p) ==
    /\ pc[p] = "init"
    /\ LET info_in == get_overlap_info(doms["in"], doms["out"], pin.rank_in[p])
           info_out == get_overlap_info(doms["out"], doms["in"], pin.rank_out[p])
       IN  pout' = [pout EXCEPT ![p] =
                [ rank_in |-> pin.rank_in[p],
                  rank_out |-> pin.rank_out[p],
                  overlap_info_in |-> info_in,
                  overlap_info_out |-> info_out,
                  reached |-> [j \in 1..Len(info_in.processors) |->
                                  ProcessOf(pin.rank_in, info_in.processors[j])] ]]
    /\ pc' = [pc EXCEPT ![p] = "done"]
    /\ UNCHANGED <<pin, size, doms, raised, script, ip, axis, arrs, rbufs, chan,
                   snap, log, stage>>

NextCart == \E p \in Ranks : Transformer_on_process(p)

SpecCart == InitCart /\ [][NextCart]_vars

\* what C24 states of process p
SameRankInBoth(p) ==
    /\ pout[p].rank_in = pout[p].rank_out
    /\ \A j \in 1..Len(pout[p].reached) :
          pin.rank_out[pout[p].reached[j]] = pout[p].overlap_info_in.processors[j]
    /\ pout[p].overlap_info_in.slice_same_proc # None
          <=> RegionsMeet(doms["in"], pin.rank_in[p], doms["out"], pin.rank_out[p])

\* C24: every process holds the same rank in the communicator of domain_in
\* and in the one of domain_out, also with rank reordering enabled (the
\* default); a destination rank taken from the subdomain list of domain_out
\* and used on the communicator of domain_in reaches the process that owns
\* that output subdomain, and the same-process overlap is found on exactly
\* the process that owns both regions.
C24_SameRank ==
    \A p \in Ranks : pc[p] = "done" => SameRankInBoth(p)

\* the same without reordering
C24_SameRankNoReorder ==
    \A p \in Ranks : (pc[p] = "done" /\ ~ pin.reorder_comm) => SameRankInBoth(p)

C24_SameRankNoReorderWitness ==
    /\ ~ pin.reorder_comm /\ size > 2
    /\ \A p \in Ranks : pc[p] = "done"
    /\ \E p \in Ranks : pout[p].reached # <<>>
    /\ \E p \in Ranks : pout[p].overlap_info_in.slice_same_proc = None

\* ---------------------------------------------------------------------
\*  SpecFlat: every rank constructs the decomposition and calls
\*  sync(arr, flat_axes) with the same flat_axes
\* ---------------------------------------------------------------------
FlatDims == {1, 2}

InitFlat ==
    /\ pout = <<>>
    /\ size \in 1..MaxProcs
    /\ \E g \in Grids(FlatDims) :
       \E h \in Halos(Len(g)), sh \in SUBSET Axes(Len(g)), fl \in SUBSET Axes(Len(g)) :
          /\ pin = [n_global |-> g, halo |-> h, shared_axes |-> SetToSortedSeq(sh)]
          /\ Constructible(g, SetToSortedSeq(sh), size)
          /\ doms = [n \in {"in"} |-> DomainDecomposition(g, h, SetToSortedSeq(sh), size)]
          /\ ProcState(doms["in"], <<[op |-> "sync", dom |-> "in", flat_axes |-> fl]>>, 1)

NextFlat ==
    \/ \E r \in Ranks : DomainDecomposition_init(r)
    \/ \E r \in Ranks : sync_list(r)
    \/ \E r \in Ranks : sync_axis_Waitall(r)

SpecFlat == InitFlat /\ [][NextFlat]_vars

\* index tuples of the local array of rank r that lie in the owned range
\* along every axis that is not in flat_axes
OwnedOnSyncedAxes(D, r, flat_axes) ==
    {t \in Box(my_subdomain(D, r).shape) :
        \A a \in Axes(D.n_dims) \ flat_axes :
            /\ D.halo <= t[a + 1]
            /\ t[a + 1] < D.halo + my_subdomain(D, r).inner_shape[a + 1]}

NoMessage ==
    /\ \A d \in Ranks, q \in Ranks : chan[d][q] = <<>>
    /\ \A r \in Ranks : rbufs[r] = <<>>

\* C28: sync never changes a cell that lies in the owned index range along
\* every axis that is not skipped (only cells in the halo range of a synced
\* axis can change); with halo = 0 it changes nothing and sends no message.
C28_OwnedUnchanged ==
    /\ \A r \in Ranks : \A i \in 1..Len(arrs[r]) :
          /\ arrs[r][i].shape = LocalArray(DIn, r, i).shape
          /\ \A t \in OwnedOnSyncedAxes(DIn, r, script[1].flat_axes) :
                arrs[r][i].d[t] = LocalArray(DIn, r, i).d[t]
    /\ DIn.halo = 0 =>
          /\ NoMessage
          /\ \A r \in Ranks : \A i \in 1..Len(arrs[r]) :
                arrs[r][i] = LocalArray(DIn, r, i)

\* every call has returned, an axis was skipped and one was not, and the
\* halo cells of a rank have changed
C28_Witness ==
    /\ AllDone /\ DIn.halo > 0 /\ size > 1
    /\ script[1].flat_axes # {}
    /\ script[1].flat_axes # Axes(DIn.n_dims)
    /\ \E a \in Axes(DIn.n_dims) \ script[1].flat_axes : DIn.n_procs[a + 1] > 1
    /\ arrs[0][1] # LocalArray(DIn, 0, 1)

\* ---------------------------------------------------------------------
\*  SpecCalls: every rank calls sync twice, the second time with another
\*  array; the ranks run at their own speed, so a rank may be in its second
\*  call, or at the next axis, while a neighbour is still in its first
\* ---------------------------------------------------------------------
MaxProcsC == 4   \* largest number of processes
MaxNC == 2       \* largest n_global[i]
CallDims == {1, 2}
HalosC == {1}
GridsC == UNION {[1..d -> 1..MaxNC] : d \in CallDims}

CallsScript ==
    <<[op |-> "sync", dom |-> "in", flat_axes |-> {}],
      [op |-> "next_array", dom |-> "in", number |-> 2],
      [op |-> "sync", dom |-> "in", flat_axes |-> {}]>>

\* the caller takes the array of its next call of sync
next_array(r) ==
    /\ pc[r] = "call"
    /\ Op(r).op = "next_array"
    /\ Return(r, <<LocalArray(doms[Op(r).dom], r, Op(r).number)>>, chan)
    /\ UNCHANGED <<pin, pout, size, doms, raised, script, log, stage>>

InitCalls ==
    /\ pin = <<>> /\ pout = <<>>
    /\ size \in 1..MaxProcsC
    /\ \E g \in GridsC, h \in HalosC :
       \E sh \in SUBSET Axes(Len(g)) :
          /\ Constructible(g, SetToSortedSeq(sh), size)
          /\ doms = [n \in {"in"} |-> DomainDecomposition(g, h, SetToSortedSeq(sh), size)]
          /\ NoRankRaises(doms["in"])
    /\ Started(doms["in"], CallsScript)

NextCalls ==
    \/ \E r \in Ranks : sync_list(r)
    \/ \E r \in Ranks : sync_axis_Waitall(r)
    \/ \E r \in Ranks : next_array(r)

SpecCalls == InitCalls /\ [][NextCalls]_vars

\* the number of the array of the operation at position k of the script
ArrayOfCall(k) == IF k = 1 THEN 1 ELSE 2

\* C32: when ranks progress at different speeds, so that one rank has
\* started call k+1 (or the next axis) while a neighbour is still inside
\* call k, every receive posted in call k for an axis is matched by a send
\* the peer issued in its call k for the same axis: what a call of a rank
\* returns is the exchange of the arrays of that call alone, and holds no
\* value of the array of another call.
C32_CallsMatch ==
    \A r \in Ranks : \A k \in {1, 3} :
        Len(snap[r]) >= k =>
            /\ snap[r][k][1]
                  = SyncAll(DIn, [q \in Ranks |-> LocalArray(DIn, q, ArrayOfCall(k))])[r]
            /\ \A t \in DOMAIN snap[r][k][1].d :
                  snap[r][k][1].d[t].k = "data" => snap[r][k][1].d[t].a = ArrayOfCall(k)

\* rank 0 waits in its second call while a neighbour still waits in its
\* first, with messages of both calls of rank 0 in its queue
C32_Witness ==
    /\ size > 1
    /\ pc[0] = "sync_wait" /\ ip[0] = 3
    /\ \E q \in Ranks \ {0} :
          /\ pc[q] = "sync_wait" /\ ip[q] = 1
          /\ \E i \in 1..Len(chan[q][0]), j \in 1..Len(chan[q][0]) :
                /\ i < j
                /\ chan[q][0][i].comm = chan[q][0][j].comm
                /\ \E t \in DOMAIN chan[q][0][i].buf.d : chan[q][0][i].buf.d[t].a = 1
                /\ \E t \in DOMAIN chan[q][0][j].buf.d : chan[q][0][j].buf.d[t].a = 2

\* a rank is at its second axis while a neighbour of that axis still waits
\* at the first
C32_WitnessAxis ==
    /\ DIn.n_procs = <<2, 2>>
    /\ pc[0] = "sync_wait" /\ ip[0] = 1 /\ axis[0] = 1
    /\ pc[1] = "sync_wait" /\ ip[1] = 1 /\ axis[1] = 0
    /\ chan[1][0] # <<>>

\* ---------------------------------------------------------------------
\*  SpecDev: the statements one rank executes in sync and in transform, in
\*  program order: packing of the send buffers, sync_with_device, Isend,
\*  Irecv, Waitall, the writes of the received buffers, return.  What the
\*  messages hold and how they are matched is in SpecSync and SpecTrans; the
\*  order of a rank's own statements does not depend on when Waitall
\*  returns.
\* ---------------------------------------------------------------------
Backends == {"numpy", "cupy"}   \* config.backend

\* a statement on a buffer: kind of the buffer, axis (-1 in transform),
\* number of the array or of the overlap
Ev(e, kind, a, i) == [e |-> e, buf |-> <<kind, a, i>>]

\* sync_with_device: synchronises the null stream, on the cupy backend only
sync_with_device(backend) ==
    IF backend = "cupy" THEN <<Ev("device_sync", "none", -1, 0)>> ELSE <<>>

RECURSIVE Concat(_)
Concat(ss) == IF ss = <<>> THEN <<>> ELSE Head(ss) \o Concat(Tail(ss))

\* _sync_axis with the device synchronised before the buffers are packed
sync_axis_events_sync_first(D, n, a, backend) ==
    IF D.n_procs[a + 1] = 1
    THEN Concat([i \in 1..n |-> <<Ev("copy", "same", a, i)>>])
    ELSE   Concat([i \in 1..n |->
                sync_with_device(backend)
                \o <<Ev("pack", "next", a, i), Ev("pack", "prev", a, i)>>
                \o <<Ev("Isend", "next", a, i), Ev("Isend", "prev", a, i)>>])
        \o Concat([i \in 1..n |->
                <<Ev("Irecv", "from_next", a, i), Ev("Irecv", "from_prev", a, i)>>])
        \o <<Ev("Waitall", "none", -1, 0)>>
        \o Concat([i \in 1..n |->
                <<Ev("write", "from_next", a, i), Ev("write", "from_prev", a, i)>>])

\* _sync_axis (and _sync_axis_same_proc) on n arrays
sync_axis_events(D, n, a, backend) ==
    IF D.n_procs[a + 1] = 1
    THEN IF D.n_global[a + 1] < D.halo
         THEN Concat([i \in 1..n |-> <<Ev("copy", "pad", a, i)>>])
         ELSE Concat([i \in 1..n |->
                <<Ev("copy", "to_next_halo", a, i), Ev("copy", "to_prev_halo", a, i)>>])
    ELSE   Concat([i \in 1..n |->
                <<Ev("pack", "next", a, i), Ev("pack", "prev", a, i)>>
                \o sync_with_device(backend)
                \o <<Ev("Isend", "next", a, i), Ev("Isend", "prev", a, i)>>])
        \o Concat([i \in 1..n |->
                <<Ev("Irecv", "from_next", a, i), Ev("Irecv", "from_prev", a, i)>>])
        \o <<Ev("Waitall", "none", -1, 0)>>
        \o Concat([i \in 1..n |->
                <<Ev("write", "from_next", a, i), Ev("write", "from_prev", a, i)>>])

\* sync_list on n arrays
sync_list_events(D, n, flat_axes, backend) ==
    IF D.halo = 0 THEN <<>>
    ELSE sync_with_device(backend)
         \o Concat([a1 \in 1..D.n_dims |->
                IF (a1 - 1) \in flat_axes THEN <<>>
                ELSE sync_axis_events(D, n, a1 - 1, backend)])

\* transform(domain_in, domain_out, ...) with arr_out = None on rank r
transform_events(domain_in, domain_out, r, backend) ==
    IF same_domain(domain_in, domain_out) THEN <<>>
    ELSE LET overlap_info_in == get_overlap_info(domain_in, domain_out, r)
             overlap_info_out == get_overlap_info(domain_out, domain_in, r)
             n_send == Len(overlap_info_in.processors)
             n_recv == Len(overlap_info_out.processors)
         IN    sync_with_device(backend)
            \o <<Ev("zeros", "arr_out", -1, 0)>>
            \o [j \in 1..n_send |-> Ev("pack", "send", -1, j)]
            \o sync_with_device(backend)
            \o [j \in 1..n_send |-> Ev("Isend", "send", -1, j)]
            \o [j \in 1..n_recv |-> Ev("Irecv", "recv", -1, j)]
            \o <<Ev("Waitall", "none", -1, 0)>>
            \o [j \in 1..n_recv |-> Ev("write", "recv", -1, j)]
            \o (IF overlap_info_in.slice_same_proc # None
                THEN <<Ev("copy", "same", -1, 0)>> ELSE <<>>)
            \o sync_list_events(domain_out, 1, {}, backend)

\* the caller: sync of one or two arrays, then forward and backward
DevScripts ==
    { <<[op |-> "sync", dom |-> "in", n |-> n, flat_axes |-> {}],
        [op |-> "forward", din |-> "in", dout |-> "out"],
        [op |-> "backward", din |-> "in", dout |-> "out"]>> : n \in 1..2 }

\* the statements of the operation rank r is in, before its return
OpEvents(r) ==
    IF Op(r).op = "sync"
    THEN sync_list_events(doms[Op(r).dom], Op(r).n, Op(r).flat_axes, pin.backend)
    ELSE transform_events(doms[TrFrom(Op(r))], doms[TrTo(Op(r))], r, pin.backend)

Executes(r, ev) ==
    /\ log' = [log EXCEPT ![r] = Append(@, [call |-> ip[r], e |-> ev.e, buf |-> ev.buf])]
    /\ UNCHANGED <<pin, pout, size, doms, raised, script, arrs, rbufs, chan, snap, stage>>

\* the next statement of sync
sync_statement(r) ==
    /\ r = pin.rank /\ pc[r] = "call" /\ Op(r).op = "sync"
    /\ axis[r] < Len(OpEvents(r))
    /\ Executes(r, OpEvents(r)[axis[r] + 1])
    /\ axis' = [axis EXCEPT ![r] = @ + 1]
    /\ UNCHANGED <<ip, pc>>

\* the next statement of transform, called by forward or backward
transform_statement(r) ==
    /\ r = pin.rank /\ pc[r] = "call" /\ Op(r).op \in {"forward", "backward"}
    /\ axis[r] < Len(OpEvents(r))
    /\ Executes(r, OpEvents(r)[axis[r] + 1])
    /\ axis' = [axis EXCEPT ![r] = @ + 1]
    /\ UNCHANGED <<ip, pc>>

\* the operation returns to the caller
operation_returns(r) ==
    /\ r = pin.rank /\ pc[r] = "call"
    /\ axis[r] = Len(OpEvents(r))
    /\ Executes(r, Ev("return", "none", -1, 0))
    /\ ip' = [ip EXCEPT ![r] = @ + 1]
    /\ pc' = [pc EXCEPT ![r] = IF ip[r] = Len(script) THEN "done" ELSE "call"]
    /\ axis' = [axis EXCEPT ![r] = 0]

InitDev ==
    /\ pout = <<>>
    /\ size \in 1..MaxProcsC
    /\ \E b \in Backends, r \in Ranks : pin = [backend |-> b, rank |-> r]
    /\ \E g \in GridsC, h1 \in HalosF, h2 \in HalosF :
       \E s1 \in SUBSET Axes(Len(g)), s2 \in SUBSET Axes(Len(g)) :
          /\ Constructible(g, SetToSortedSeq(s1), size)
          /\ Constructible(g, SetToSortedSeq(s2), size)
          /\ doms = [n \in {"in", "out"} |->
                        IF n = "in"
                        THEN DomainDecomposition(g, h1, SetToSortedSeq(s1), size)
                        ELSE DomainDecomposition(g, h2, SetToSortedSeq(s2), size)]
          /\ NoRankRaises(doms["in"]) /\ NoRankRaises(doms["out"])
    /\ \E scr \in DevScripts : Started(doms["in"], scr)

NextDev ==
    \/ \E r \in Ranks : sync_statement(r)
    \/ \E r \in Ranks : transform_statement(r)
    \/ \E r \in Ranks : operation_returns(r)

SpecDev == InitDev /\ [][NextDev]_vars

\* the statements the observed rank has executed
Statements == log[pin.rank]

\* C35: on the GPU backend, in sync and in Transformer.forward/backward
\* every send is issued only after a device synchronisation that follows
\* the packing of its contiguous send buffer.
C35_SendAfterDeviceSync ==
    pin.backend = "cupy" =>
        \A i \in 1..Len(Statements) :
            Statements[i].e = "Isend" =>
                \E j \in 1..(i - 1) :
                    /\ Statements[j].e = "device_sync"
                    /\ Statements[j].call = Statements[i].call
                    /\ \E k \in 1..(j - 1) :
                          /\ Statements[k].e = "pack"
                          /\ Statements[k].buf = Statements[i].buf
                          /\ Statements[k].call = Statements[i].call

\* sends of a sync of two arrays, of forward and of backward have been issued
C35_Witness ==
    /\ pin.backend = "cupy" /\ pc[pin.rank] = "done"
    /\ \E i \in 1..Len(Statements) :
          Statements[i] = [call |-> 1, e |-> "Isend", buf |-> <<"prev", 1, 2>>]
    /\ \E i \in 1..Len(Statements) :
          Statements[i] = [call |-> 2, e |-> "Isend", buf |-> <<"send", -1, 1>>]
    /\ \E i \in 1..Len(Statements) :
          Statements[i] = [call |-> 3, e |-> "Isend", buf |-> <<"send", -1, 1>>]
    /\ \E i \in 1..Len(Statements) :
          Statements[i] = [call |-> 2, e |-> "Isend", buf |-> <<"next", 0, 1>>]

\* C36: on the GPU backend, in sync and in Transformer.forward/backward a
\* device synchronisation is forced after received data has been written
\* into the caller's array and before the operation returns.
C36_DeviceSyncAfterWrite ==
    pin.backend = "cupy" =>
        \A i \in 1..Len(Statements) : \A m \in (i + 1)..Len(Statements) :
            /\ Statements[i].e = "write"
            /\ Statements[m].e = "return"
            /\ Statements[m].call = Statements[i].call
            => \E j \in (i + 1)..(m - 1) : Statements[j].e = "device_sync"

\* what the code does: the buffers transform itself received are written
\* before domain_out.sync, which synchronises the device at its start when
\* the output decomposition has a halo
C36_TransformWritesSynced ==
    pin.backend = "cupy" =>
        \A i \in 1..Len(Statements) : \A m \in (i + 1)..Len(Statements) :
            /\ Statements[i].e = "write" /\ Statements[i].buf[1] = "recv"
            /\ doms[TrTo(script[Statements[i].call])].halo > 0
            /\ Statements[m].e = "return"
            /\ Statements[m].call = Statements[i].call
            => \E j \in (i + 1)..(m - 1) : Statements[j].e = "device_sync"

C36_TransformWritesSyncedWitness ==
    /\ pin.backend = "cupy" /\ pc[pin.rank] = "done"
    /\ doms["out"].halo > 0
    /\ \E i \in 1..Len(Statements) :
          Statements[i] = [call |-> 2, e |-> "write", buf |-> <<"recv", -1, 1>>]

\* ---------------------------------------------------------------------
\*  SpecSub: the Subdomains of a process grid, computed rank by rank
\* ---------------------------------------------------------------------
SubDims == {1, 2}

InitSub ==
    /\ pin \in { [n_global |-> g, n_procs |-> p, halo |-> h] :
                    g \in UNION {[1..d -> 1..MaxN] : d \in SubDims},
                    p \in UNION {[1..d -> 1..MaxP] : d \in SubDims},
                    h \in 0..MaxHalo }
    /\ Len(pin.n_global) = Len(pin.n_procs)
    /\ Prod(pin.n_procs, 1, Len(pin.n_procs)) <= MaxP
    /\ pout = <<>>
    /\ size = 0 /\ doms = Idle /\ raised = Idle /\ script = <<>>
    /\ ip = Idle /\ pc = Idle /\ axis = Idle /\ arrs = Idle
    /\ rbufs = Idle /\ chan = Idle /\ snap = Idle /\ log = Idle /\ stage = 0

\* all_subdomains = [Subdomain(i, comm, n_global, halo) for i in range(size)]
NewSubdomain ==
    /\ Len(pout) < Prod(pin.n_procs, 1, Len(pin.n_procs))
    /\ pout' = Append(pout, Subdomain(Len(pout), pin.n_procs, pin.n_global, pin.halo))
    /\ UNCHANGED <<pin, size, doms, raised, script, ip, pc, axis, arrs,
                   rbufs, chan, snap, log, stage>>

NextSub == NewSubdomain

SpecSub == InitSub /\ [][NextSub]_vars

\* the Subdomains of pout on the line through `s` along axis i
Line(s, i) ==
    {t \in SeqToSet(pout) :
        \A j \in 1..Len(pin.n_global) : j # i => t.coord[j] = s.coord[j]}

AllBuilt == Len(pout) = Prod(pin.n_procs, 1, Len(pin.n_procs))

\* C3: along every axis the owned intervals [position, position+inner_shape)
\* of the Subdomains of one line are pairwise disjoint and their union is
\* exactly [0, n_global[axis]), also when n_procs[axis] > n_global[axis].
C3_Partition ==
    AllBuilt =>
        \A k \in 1..Len(pout) : \A i \in 1..Len(pin.n_global) :
            LET L == Line(pout[k], i) IN
            /\ \A s \in L, t \in L : s # t => Owned(s, i) \cap Owned(t, i) = {}
            /\ UNION {Owned(s, i) : s \in L} = 0..(pin.n_global[i] - 1)
            /\ \A s \in L :
                  /\ s.global_slice[i].start[1] = s.position[i]
                  /\ s.global_slice[i].stop[1] = s.position[i] + s.inner_shape[i]
                  /\ s.global_slice[i].stop[1] <= pin.n_global[i]

C3_Witness ==
    /\ AllBuilt
    /\ \E i \in 1..Len(pin.n_global) :
          /\ pin.n_procs[i] > pin.n_global[i]
          /\ pin.n_global[i] > 1
    /\ \E i \in 1..Len(pin.n_global) :
          /\ pin.n_procs[i] > 1
          /\ pin.n_global[i] % pin.n_procs[i] # 0
          /\ pin.n_global[i] > pin.n_procs[i]

\* the Subdomains of 102 grid points on 10 processes
Example102(r) == Subdomain(r, <<10>>, <<102>>, 0)

\* C18: along each axis every rank except the last owns exactly
\* n_global // n_procs points and the last rank owns n_global // n_procs +
\* n_global % n_procs points, at position coord * (n_global // n_procs); with
\* 102 points and 10 processes ranks 0..8 own 10 points and rank 9 owns 12
\* points at position 90 with global_slice [90, 102).
C18_LastRankTakesRemainder ==
    /\ \A k \in 1..Len(pout) : \A i \in 1..Len(pin.n_global) :
          LET n == pin.n_global[i]
              p == pin.n_procs[i]
              s == pout[k]
          IN  /\ s.coord[i] \in 0..(p - 1)
              /\ s.coord[i] < p - 1 => s.inner_shape[i] = n \div p
              /\ s.coord[i] = p - 1 => s.inner_shape[i] = (n \div p) + (n % p)
              /\ s.position[i] = s.coord[i] * (n \div p)
    /\ \A r \in 0..8 : /\ Example102(r).inner_shape = <<10>>
                       /\ Example102(r).position = <<10 * r>>
    /\ Example102(9).inner_shape = <<12>>
    /\ Example102(9).position = <<90>>
    /\ Example102(9).global_slice = <<slice(Some(90), Some(102))>>

C18_Witness ==
    /\ AllBuilt
    /\ Len(pin.n_global) = 2
    /\ \E k \in 1..Len(pout) : \E i \in 1..2 :
          /\ pout[k].coord[i] = pin.n_procs[i] - 1
          /\ pout[k].coord[i] > 0
          /\ pin.n_global[i] % pin.n_procs[i] # 0
          /\ pout[k].inner_shape[i] > pin.n_global[i] \div pin.n_procs[i]
          /\ pout[k].position[i] > 0

====
